---------------------------- MODULE Spec2Model ----------------------------
(***************************************************************************)
(* Model of the patch-based state synchronisation engine of src/app.py:    *)
(* the JSON-Pointer resolver, the add/replace/remove patch applier, the    *)
(* frame extractor, and the /api/wslog handler with its gate flag, its     *)
(* advisory lock and its temp-file + rename persistence.                   *)
(*                                                                         *)
(* Strings that the code takes apart (paths, tokens, object keys) are      *)
(* sequences of one-character strings.  A JSON value is a record           *)
(* [t, v]: t is the type tag, v the payload.                               *)
(***************************************************************************)
EXTENDS Integers, Sequences, FiniteSets, TLC

(***************************************************************************)
(* Bounds of the model.                                                    *)
(***************************************************************************)
NReq == 2
MaxRequests == 2
NChunks == 2

(***************************************************************************)
(* JSON values.                                                            *)
(***************************************************************************)
Null == [t |-> "null", v |-> 0]
Num(n) == [t |-> "num", v |-> n]
Obj(f) == [t |-> "obj", v |-> f]
Arr(s) == [t |-> "arr", v |-> s]
EmptyObj == Obj(<<>>)
EmptyArr == Arr(<<>>)

IsObj(x) == x.t = "obj"
IsArr(x) == x.t = "arr"
\* a walk that takes null for a value like any other
IsNullNever(x) == FALSE

IsNull(x) == x.t = "null"

\* parent[key] = value on a dict
Put(f, k, x) == [j \in (DOMAIN f) \cup {k} |-> IF j = k THEN x ELSE f[j]]
\* del parent[key] on a dict
Del(f, k) == [j \in (DOMAIN f) \ {k} |-> f[j]]
\* list.insert(i, x), i a 0-based index with 0 <= i <= len
InsertAt(s, i, x) == SubSeq(s, 1, i) \o <<x>> \o SubSeq(s, i + 1, Len(s))
\* list.pop(i), i a 0-based index with 0 <= i < len
RemoveAt(s, i) == SubSeq(s, 1, i) \o SubSeq(s, i + 2, Len(s))
\* while len(s) < n: s.append(None)
PadTo(s, n) == s \o [j \in 1..(IF n > Len(s) THEN n - Len(s) ELSE 0) |-> Null]
\* s[i] = x, i a 0-based index with 0 <= i < len
SetAt(s, i, x) == [s EXCEPT ![i + 1] = x]

(***************************************************************************)
(* _json_pointer_tokens: str.split('/') and the two str.replace calls.     *)
(***************************************************************************)
NoPath == <<"None">>

RECURSIVE SplitSlash(_)
SplitSlash(s) ==
  IF s = <<>> THEN << <<>> >>
  ELSE LET rest == SplitSlash(Tail(s)) IN
       IF Head(s) = "/" THEN << <<>> >> \o rest
       ELSE << <<Head(s)>> \o rest[1] >> \o Tail(rest)

\* str.replace(a ++ b, c): left to right, non-overlapping
RECURSIVE ReplacePair(_, _, _, _)
ReplacePair(s, a, b, c) ==
  IF s = <<>> THEN <<>>
  ELSE IF Len(s) >= 2 /\ s[1] = a /\ s[2] = b
       THEN <<c>> \o ReplacePair(SubSeq(s, 3, Len(s)), a, b, c)
       ELSE <<Head(s)>> \o ReplacePair(Tail(s), a, b, c)

\* the two replacements in the wrong order: '~01' becomes '/' instead of '~1'
DecodeTokenTildeFirst(p) == ReplacePair(ReplacePair(p, "~", "0", "~"), "~", "1", "/")

DecodeToken(p) == ReplacePair(ReplacePair(p, "~", "1", "/"), "~", "0", "~")

json_pointer_tokens(pointer) ==
  IF pointer = NoPath THEN <<>>
  ELSE IF pointer = <<>> THEN <<>>
  ELSE IF Head(pointer) # "/" THEN <<pointer>>
  ELSE LET parts == Tail(SplitSlash(pointer)) IN
       [i \in 1..Len(parts) |-> DecodeToken(parts[i])]

(***************************************************************************)
(* _is_int_token and int(token), over the characters the model uses:       *)
(* an optional sign followed by one or more decimal digits.                *)
(***************************************************************************)
Digits == {"0", "1", "2", "3", "4", "5", "6", "7", "8", "9"}

DigitVal(c) ==
  CASE c = "0" -> 0 [] c = "1" -> 1 [] c = "2" -> 2 [] c = "3" -> 3
    [] c = "4" -> 4 [] c = "5" -> 5 [] c = "6" -> 6 [] c = "7" -> 7
    [] c = "8" -> 8 [] c = "9" -> 9

AllDigits(s) == Len(s) >= 1 /\ \A i \in 1..Len(s) : s[i] \in Digits

is_int_token(token) ==
  IF token # <<>> /\ Head(token) \in {"-", "+"} THEN AllDigits(Tail(token))
  ELSE AllDigits(token)

RECURSIVE NatVal(_)
NatVal(s) == IF s = <<>> THEN 0 ELSE 10 * NatVal(SubSeq(s, 1, Len(s) - 1)) + DigitVal(s[Len(s)])

\* an int() that drops the sign
IntValAbs(token) ==
  IF Head(token) \in {"-", "+"} THEN NatVal(Tail(token)) ELSE NatVal(token)

IntVal(token) ==
  IF Head(token) = "-" THEN 0 - NatVal(Tail(token))
  ELSE IF Head(token) = "+" THEN NatVal(Tail(token))
  ELSE NatVal(token)


(***************************************************************************)
(* Results of a patch: applied or not, the reason when not, and the        *)
(* document as the call leaves it (the code mutates it in place, so a      *)
(* failing call leaves behind whatever it had already changed).            *)
(***************************************************************************)
NoReason == [msg |-> "", tok |-> <<>>]
Reason(m, k) == [msg |-> m, tok |-> k]
Applied(d) == [ok |-> TRUE, reason |-> NoReason, doc |-> d]
Skipped(d, m, k) == [ok |-> FALSE, reason |-> Reason(m, k), doc |-> d]

\* lines 84-87, 107-110: the container created for a missing level
NewContainer(next_token) ==
  IF next_token = <<"-">> \/ is_int_token(next_token) THEN EmptyArr ELSE EmptyObj

(***************************************************************************)
(* _apply_single_patch, lines 142-205: the operation on the resolved       *)
(* parent container.  doc is the parent after the call.                    *)
(***************************************************************************)
\* a remove that takes a key that is not there as done
RemoveOpLenient(parent, key_token) ==
  IF IsObj(parent) THEN Applied(Obj(Del(parent.v, key_token)))
  ELSE IF IsArr(parent) THEN
    IF key_token = <<"-">> THEN
      IF parent.v # <<>> THEN Applied(Arr(SubSeq(parent.v, 1, Len(parent.v) - 1)))
      ELSE Skipped(parent, "array empty", <<>>)
    ELSE IF ~is_int_token(key_token) THEN Skipped(parent, "invalid index token", <<>>)
    ELSE LET idx == IntVal(key_token) IN
      IF 0 <= idx /\ idx < Len(parent.v) THEN Applied(Arr(RemoveAt(parent.v, idx)))
      ELSE Skipped(parent, "index out of range", <<>>)
  ELSE Skipped(parent, "cannot remove from non-container", <<>>)

\* a remove without the lower bound test: a negative index counts from the end
RemoveOpFromEnd(parent, key_token) ==
  IF IsObj(parent) THEN
    IF key_token \in DOMAIN parent.v THEN Applied(Obj(Del(parent.v, key_token)))
    ELSE Skipped(parent, "key not found", <<>>)
  ELSE IF IsArr(parent) THEN
    IF key_token = <<"-">> THEN
      IF parent.v # <<>> THEN Applied(Arr(SubSeq(parent.v, 1, Len(parent.v) - 1)))
      ELSE Skipped(parent, "array empty", <<>>)
    ELSE IF ~is_int_token(key_token) THEN Skipped(parent, "invalid index token", <<>>)
    ELSE LET idx == IntVal(key_token) IN
      IF 0 <= idx /\ idx < Len(parent.v) THEN Applied(Arr(RemoveAt(parent.v, idx)))
      ELSE IF idx < 0 /\ 0 <= Len(parent.v) + idx
        THEN Applied(Arr(RemoveAt(parent.v, Len(parent.v) + idx)))
      ELSE Skipped(parent, "index out of range", <<>>)
  ELSE Skipped(parent, "cannot remove from non-container", <<>>)

RemoveOp(parent, key_token) ==
  IF IsObj(parent) THEN
    IF key_token \in DOMAIN parent.v THEN Applied(Obj(Del(parent.v, key_token)))
    ELSE Skipped(parent, "key not found", <<>>)
  ELSE IF IsArr(parent) THEN
    IF key_token = <<"-">> THEN
      IF parent.v # <<>> THEN Applied(Arr(SubSeq(parent.v, 1, Len(parent.v) - 1)))
      ELSE Skipped(parent, "array empty", <<>>)
    ELSE IF ~is_int_token(key_token) THEN Skipped(parent, "invalid index token", <<>>)
    ELSE LET idx == IntVal(key_token) IN
      IF 0 <= idx /\ idx < Len(parent.v) THEN Applied(Arr(RemoveAt(parent.v, idx)))
      ELSE Skipped(parent, "index out of range", <<>>)
  ELSE Skipped(parent, "cannot remove from non-container", <<>>)

\* an add that overwrites the element at the index instead of shifting it
AddOpOverwrites(parent, key_token, value) ==
  IF IsObj(parent) THEN Applied(Obj(Put(parent.v, key_token, value)))
  ELSE IF IsArr(parent) THEN
    IF key_token = <<"-">> THEN Applied(Arr(Append(parent.v, value)))
    ELSE IF ~is_int_token(key_token) THEN Skipped(parent, "invalid index token", <<>>)
    ELSE LET idx == IntVal(key_token) IN
      IF idx < 0 THEN Skipped(parent, "index out of range", <<>>)
      ELSE IF idx < Len(parent.v) THEN Applied(Arr(SetAt(parent.v, idx, value)))
      ELSE Applied(Arr(Append(PadTo(parent.v, idx), value)))
  ELSE Skipped(parent, "cannot add into non-container", <<>>)

\* an add that turns a non-container parent into an object holding the value
AddOpReplacesScalar(parent, key_token, value) ==
  IF IsObj(parent) THEN Applied(Obj(Put(parent.v, key_token, value)))
  ELSE IF IsArr(parent) THEN
    IF key_token = <<"-">> THEN Applied(Arr(Append(parent.v, value)))
    ELSE IF ~is_int_token(key_token) THEN Skipped(parent, "invalid index token", <<>>)
    ELSE LET idx == IntVal(key_token) IN
      IF idx < 0 THEN Skipped(parent, "index out of range", <<>>)
      ELSE IF idx <= Len(parent.v) THEN Applied(Arr(InsertAt(parent.v, idx, value)))
      ELSE Applied(Arr(Append(PadTo(parent.v, idx), value)))
  ELSE Applied(Obj(key_token :> value))

AddOp(parent, key_token, value) ==
  IF IsObj(parent) THEN Applied(Obj(Put(parent.v, key_token, value)))
  ELSE IF IsArr(parent) THEN
    IF key_token = <<"-">> THEN Applied(Arr(Append(parent.v, value)))
    ELSE IF ~is_int_token(key_token) THEN Skipped(parent, "invalid index token", <<>>)
    ELSE LET idx == IntVal(key_token) IN
      IF idx < 0 THEN Skipped(parent, "index out of range", <<>>)
      ELSE IF idx <= Len(parent.v) THEN Applied(Arr(InsertAt(parent.v, idx, value)))
      ELSE Applied(Arr(Append(PadTo(parent.v, idx), value)))
  ELSE Skipped(parent, "cannot add into non-container", <<>>)

\* a replace that inserts in front of the element instead of overwriting it
ReplaceOpInserts(parent, key_token, value) ==
  IF IsObj(parent) THEN
    IF key_token \in DOMAIN parent.v THEN Applied(Obj(Put(parent.v, key_token, value)))
    ELSE Skipped(parent, "key not found for replace", <<>>)
  ELSE IF IsArr(parent) THEN
    IF ~is_int_token(key_token) THEN Skipped(parent, "invalid index token", <<>>)
    ELSE LET idx == IntVal(key_token) IN
      IF 0 <= idx /\ idx < Len(parent.v) THEN Applied(Arr(InsertAt(parent.v, idx, value)))
      ELSE Skipped(parent, "index out of range", <<>>)
  ELSE Skipped(parent, "cannot replace in non-container", <<>>)

\* a replace that appends when the index is the length of the array
ReplaceOpAppends(parent, key_token, value) ==
  IF IsObj(parent) THEN
    IF key_token \in DOMAIN parent.v THEN Applied(Obj(Put(parent.v, key_token, value)))
    ELSE Skipped(parent, "key not found for replace", <<>>)
  ELSE IF IsArr(parent) THEN
    IF ~is_int_token(key_token) THEN Skipped(parent, "invalid index token", <<>>)
    ELSE LET idx == IntVal(key_token) IN
      IF 0 <= idx /\ idx < Len(parent.v) THEN Applied(Arr(SetAt(parent.v, idx, value)))
      ELSE IF idx = Len(parent.v) THEN Applied(Arr(Append(parent.v, value)))
      ELSE Skipped(parent, "index out of range", <<>>)
  ELSE Skipped(parent, "cannot replace in non-container", <<>>)

ReplaceOp(parent, key_token, value) ==
  IF IsObj(parent) THEN
    IF key_token \in DOMAIN parent.v THEN Applied(Obj(Put(parent.v, key_token, value)))
    ELSE Skipped(parent, "key not found for replace", <<>>)
  ELSE IF IsArr(parent) THEN
    IF ~is_int_token(key_token) THEN Skipped(parent, "invalid index token", <<>>)
    ELSE LET idx == IntVal(key_token) IN
      IF 0 <= idx /\ idx < Len(parent.v) THEN Applied(Arr(SetAt(parent.v, idx, value)))
      ELSE Skipped(parent, "index out of range", <<>>)
  ELSE Skipped(parent, "cannot replace in non-container", <<>>)

\* a dispatch that takes copy for add
ApplyOpCopyAdds(parent, key_token, op, value) ==
  IF op = "remove" THEN RemoveOp(parent, key_token)
  ELSE IF op \in {"add", "copy"} THEN AddOp(parent, key_token, value)
  ELSE IF op = "replace" THEN ReplaceOp(parent, key_token, value)
  ELSE Skipped(parent, "unsupported op", <<op>>)

ApplyOp(parent, key_token, op, value) ==
  IF op = "remove" THEN RemoveOp(parent, key_token)
  ELSE IF op = "add" THEN AddOp(parent, key_token, value)
  ELSE IF op = "replace" THEN ReplaceOp(parent, key_token, value)
  ELSE Skipped(parent, "unsupported op", <<op>>)

(***************************************************************************)
(* _get_parent_and_key, lines 72-121: the walk over all tokens but the     *)
(* last, creating and padding as it goes when create_missing, followed by  *)
(* the operation on the parent it arrives at.  A KeyError raised on the    *)
(* way is caught at line 206 and becomes the reason; what the walk had     *)
(* created before it stays in the document.                                *)
(***************************************************************************)
RECURSIVE get_parent_and_key(_, _, _, _, _)
get_parent_and_key(current, tokens, create_missing, op, value) ==
  IF Len(tokens) = 1 THEN ApplyOp(current, tokens[1], op, value)
  ELSE
    LET token == tokens[1]
        next_token == tokens[2]
    IN
    IF IsObj(current) THEN
      LET missing == token \notin DOMAIN current.v \/ IsNull(current.v[token]) IN
      IF missing /\ ~create_missing THEN Skipped(current, "Missing key", token)
      ELSE
        LET child == IF missing THEN NewContainer(next_token) ELSE current.v[token]
            sub == get_parent_and_key(child, Tail(tokens), create_missing, op, value)
        IN [ok |-> sub.ok, reason |-> sub.reason, doc |-> Obj(Put(current.v, token, sub.doc))]
    ELSE IF IsArr(current) THEN
      IF token = <<"-">> THEN Skipped(current, "'-' not allowed except as final token in add op", <<>>)
      ELSE IF ~is_int_token(token) THEN Skipped(current, "Expected array index", token)
      ELSE
        LET idx == IntVal(token) IN
        IF idx < 0 THEN Skipped(current, "Negative index not allowed", token)
        ELSE IF idx >= Len(current.v) /\ ~create_missing THEN Skipped(current, "Index out of range", token)
        ELSE
          LET padded == PadTo(current.v, idx + 1) IN
          IF IsNull(padded[idx + 1]) /\ ~create_missing THEN Skipped(current, "Missing element at index", token)
          ELSE
            LET child == IF IsNull(padded[idx + 1]) THEN NewContainer(next_token) ELSE padded[idx + 1]
                sub == get_parent_and_key(child, Tail(tokens), create_missing, op, value)
            IN [ok |-> sub.ok, reason |-> sub.reason, doc |-> Arr(SetAt(padded, idx, sub.doc))]
    ELSE IF ~create_missing THEN Skipped(current, "Cannot traverse non-container value", <<>>)
    ELSE Skipped(current, "Invalid traversal state", <<>>)

(***************************************************************************)
(* A patch entry of a PartialState frame.  isdict is FALSE for an entry    *)
(* that is not a JSON object, which line 653 replaces by {}; op is "" and  *)
(* path is NoPath where the entry has none.                                *)
(***************************************************************************)
Patch(o, p, x) == [isdict |-> TRUE, op |-> o, path |-> p, value |-> x]
NotADict == [isdict |-> FALSE, op |-> "", path |-> NoPath, value |-> Null]
EmptyDict == [isdict |-> TRUE, op |-> "", path |-> NoPath, value |-> Null]

\* a resolver that creates missing containers for every operation
apply_single_patch_creating(document, patch) ==
  IF patch.op = "" \/ patch.path = NoPath THEN Skipped(document, "missing op/path", <<>>)
  ELSE LET tokens == json_pointer_tokens(patch.path) IN
    IF tokens = <<>> THEN Skipped(document, "root path not supported", <<>>)
    ELSE get_parent_and_key(document, tokens, TRUE, patch.op, patch.value)

\* an applier that takes the empty path as the root and puts the value there
apply_single_patch_at_root(document, patch) ==
  IF patch.op = "" \/ patch.path = NoPath THEN Skipped(document, "missing op/path", <<>>)
  ELSE LET tokens == json_pointer_tokens(patch.path) IN
    IF tokens = <<>> THEN Applied(patch.value)
    ELSE get_parent_and_key(document, tokens, patch.op = "add", patch.op, patch.value)

\* _apply_single_patch, lines 123-140 and 206-207
apply_single_patch(document, patch) ==
  IF patch.op = "" \/ patch.path = NoPath THEN Skipped(document, "missing op/path", <<>>)
  ELSE LET tokens == json_pointer_tokens(patch.path) IN
    IF tokens = <<>> THEN Skipped(document, "root path not supported", <<>>)
    ELSE get_parent_and_key(document, tokens, patch.op = "add", patch.op, patch.value)


(***************************************************************************)
(* Frames and envelopes.  A frame is its message: type is "Welcome",       *)
(* "PartialState" or anything else; fullState and patches are Null and     *)
(* <<>> where the message has none.  A body is a list of frames.           *)
(***************************************************************************)
Welcome(fs) == [type |-> "Welcome", fullState |-> fs, patches |-> <<>>]
PartialState(ps) == [type |-> "PartialState", fullState |-> Null, patches |-> ps]
OtherFrame == [type |-> "Ping", fullState |-> Null, patches |-> <<>>]

\* a collector that reads the frames in order and forgets the patches that
\* came before a snapshot
RECURSIVE collect_patches_after_welcome(_)
collect_patches_after_welcome(frames) ==
  IF frames = <<>> THEN <<>>
  ELSE LET before == collect_patches_after_welcome(SubSeq(frames, 1, Len(frames) - 1))
           last == frames[Len(frames)]
       IN IF last.type = "Welcome" THEN <<>>
          ELSE IF last.type = "PartialState" THEN before \o last.patches
          ELSE before

\* _collect_patches_from_body, lines 229-238
RECURSIVE collect_patches_from_body(_)
collect_patches_from_body(frames) ==
  IF frames = <<>> THEN <<>>
  ELSE (IF Head(frames).type = "PartialState" THEN Head(frames).patches ELSE <<>>)
       \o collect_patches_from_body(Tail(frames))

\* api_wslog, lines 580-586: the last Welcome frame with an object fullState wins
RECURSIVE ScanWelcome(_, _)
ScanWelcome(scan_frames, found) ==
  IF scan_frames = <<>> THEN found
  ELSE LET msg == Head(scan_frames) IN
       ScanWelcome(Tail(scan_frames),
                   IF msg.type = "Welcome" /\ IsObj(msg.fullState) THEN msg.fullState ELSE found)

(***************************************************************************)
(* The inputs the model posts.                                             *)
(***************************************************************************)
KeyA == <<"a">>
PathAppendA == <<"/", "a", "/", "-">>
Snap1 == Obj(KeyA :> Arr(<<>>))
Snap2 == Obj(KeyA :> Arr(<<Num(0)>>))
App(n) == Patch("add", PathAppendA, Num(n))
\* skipped, and leaves {"b": []} behind: '-' in the middle of the path
MidDash == Patch("add", <<"/", "b", "/", "-", "/", "c">>, Num(7))

Bodies ==
  { <<Welcome(Snap1)>>,
    <<PartialState(<<App(1)>>), Welcome(Snap2)>>,
    <<PartialState(<<App(1), App(2)>>)>>,
    <<PartialState(<<MidDash>>), PartialState(<<NotADict, App(2)>>)>>,
    <<OtherFrame, PartialState(<<>>)>> }

(***************************************************************************)
(* State.  A file is Missing or [val, n]: n of the NChunks pieces of the   *)
(* serialised value val are in it.  lock is 0 or the request holding the   *)
(* flock.  The other variables are the handler's locals, per request.      *)
(***************************************************************************)
VARIABLES WELCOME_RECEIVED, lock, doc, tmp, started, pc, body, welcome_full_state,
          welcome_saved, welcome_error, patches, state, base, idx, applied, skipped,
          reasons, wr, resp,
          PET_DIETS_CACHE, LAST_MTIME, diet_file, diet_mtime, watch_pc, watch_data,
          save_pc, save_path, save_pets, saves

\* the state of app.py, and the state of pet_diet_server_flask.py
wslog == <<WELCOME_RECEIVED, lock, doc, tmp, started, pc, body, welcome_full_state,
           welcome_saved, welcome_error, patches, state, base, idx, applied, skipped,
           reasons, wr, resp>>
diets == <<PET_DIETS_CACHE, LAST_MTIME, diet_file, diet_mtime, watch_pc, watch_data,
           save_pc, save_path, save_pets, saves>>
vars == <<wslog, diets>>

shared == <<WELCOME_RECEIVED, lock, doc, tmp>>
locals == <<body, welcome_full_state, welcome_saved, welcome_error, patches, state,
            base, idx, applied, skipped, reasons, wr>>

(***************************************************************************)
(* pet_diet_server_flask.py: the default diets file, its in-memory cache   *)
(* and the watcher's record of the file's modification time.  The file is  *)
(* absent, empty (opened for writing and not yet written, line 164) or     *)
(* holds the JSON text of a document; a modification time is a number,     *)
(* NoTime standing for None (lines 62, 65-69).                             *)
(***************************************************************************)
NoTime == 0 - 1
PetsKey == <<"pets">>
EmptyPets == EmptyObj
\* { "pets": pets }, lines 40, 42, 52, 165, 170
PetsDoc(pets) == Obj(PetsKey :> pets)
NoDiets == [exists |-> FALSE, written |-> FALSE, json |-> Null]
Truncated == [exists |-> TRUE, written |-> FALSE, json |-> Null]
\* json.dump(x, f), lines 47 and 165
Dumped(x) == [exists |-> TRUE, written |-> TRUE, json |-> x]
\* json.load(f), line 28: the document of a written file; an empty file raises
Parsed(f) == [ok |-> f.written, json |-> f.json]
NoData == [ok |-> FALSE, json |-> Null]
\* what _load_default_cache assigns for the result of reading, lines 30-31 and 51-52
\* (the files of the model all have the { "pets": {...} } shape of line 30;
\* the legacy shapes of lines 32-40 are not modelled)

CacheOf(d) == IF d.ok THEN d.json ELSE PetsDoc(EmptyPets)
\* the modification time a write gives the file
Touched(t) == t + 1
DEFAULT_PATH == "mg_pet_diets.json"
ABS_DEFAULT_PATH == "/srv/mg_pet_diets.json"
OTHER_PATH == "other.json"
\* the server after start-up (lines 59 and 105-109) with an empty default file
DietsStart ==
  /\ PET_DIETS_CACHE = PetsDoc(EmptyPets)
  /\ diet_file = Dumped(PetsDoc(EmptyPets))
  /\ diet_mtime = 0
  /\ LAST_MTIME = 0
  /\ watch_pc = "sleep"
  /\ watch_data = NoData
  /\ save_pc = "idle"
  /\ save_path = DEFAULT_PATH
  /\ save_pets = EmptyPets
  /\ saves = 0

Reqs == 1..NReq
Missing == [val |-> Null, n |-> 0 - 1]
File(x, k) == [val |-> x, n |-> k]
\* a load that takes whatever is in the file
ReadableAny(f) == f # Missing

\* json.loads succeeds on a file that holds all of its value
Readable(f) == f # Missing /\ f.n = NChunks

NoResp == [kind |-> "none", code |-> 0, ok |-> FALSE, applied |-> 0, skipped |-> 0,
           requiresWelcome |-> FALSE, reasons |-> <<>>,
           welcomeSaved |-> FALSE, welcomeError |-> FALSE]

\* the out dict of lines 605-679 and its status code
Response(r, k, c, a, s, rw, rs) ==
  [kind |-> k, code |-> c, ok |-> (k = "ok"), applied |-> a, skipped |-> s,
   requiresWelcome |-> rw, reasons |-> rs,
   welcomeSaved |-> welcome_saved[r], welcomeError |-> welcome_error[r]]

\* reasons[-5:]
LastFive(rs) == IF Len(rs) <= 5 THEN rs ELSE SubSeq(rs, Len(rs) - 4, Len(rs))

\* a handler that answers a body without snapshot and patches as a bad request
NoPatchesIsBadRequest(r) == Response(r, "bad_request", 400, 0, 0, FALSE, <<>>)

\* lines 605-610
NoPatchesResponse(r) == Response(r, "ok", 200, 0, 0, FALSE, <<>>)
\* lines 614-625
GateResponse(r, ps) == Response(r, "ok", 200, 0, Len(ps), TRUE, <<>>)
\* an abort that forgets the patches it drops
UnreadableResponseNoCount(r, ps) == Response(r, "state_unreadable", 503, 0, 0, FALSE, <<>>)

\* lines 634-639
UnreadableResponse(r, ps) == Response(r, "state_unreadable", 503, 0, Len(ps), FALSE, <<>>)
\* lines 641-646
MissingResponse(r, ps) == Response(r, "state_missing", 503, 0, Len(ps), TRUE, <<>>)
\* lines 665-670
PersistErrorResponse(r, a, k) == Response(r, "persist_error", 500, a, k, FALSE, <<>>)
\* lines 672-679
OkResponse(r, a, k, rs) == Response(r, "ok", 200, a, k, FALSE, LastFive(rs))
\* an exception that leaves the handler: a 500 without a report
ExceptionResponse(r) == Response(r, "exception", 500, 0, 0, FALSE, <<>>)

Init ==
  /\ WELCOME_RECEIVED = FALSE
  /\ lock = 0
  /\ doc = Missing
  /\ tmp = Missing
  /\ started = 0
  /\ pc = [r \in Reqs |-> "idle"]
  /\ body = [r \in Reqs |-> <<>>]
  /\ welcome_full_state = [r \in Reqs |-> Null]
  /\ welcome_saved = [r \in Reqs |-> FALSE]
  /\ welcome_error = [r \in Reqs |-> FALSE]
  /\ patches = [r \in Reqs |-> <<>>]
  /\ state = [r \in Reqs |-> Null]
  /\ base = [r \in Reqs |-> Null]
  /\ idx = [r \in Reqs |-> 1]
  /\ applied = [r \in Reqs |-> 0]
  /\ skipped = [r \in Reqs |-> 0]
  /\ reasons = [r \in Reqs |-> <<>>]
  /\ wr = [r \in Reqs |-> 0]
  /\ resp = [r \in Reqs |-> NoResp]
  /\ DietsStart


(***************************************************************************)
(* api_wslog, one action per step of the handler.                          *)
(***************************************************************************)
Goto(r, l) == pc' = [pc EXCEPT ![r] = l]
Respond(r, x) == resp' = [resp EXCEPT ![r] = x] /\ Goto(r, "done")

\* a worker is free before its first request and after it has sent a response
Free(r) == pc[r] \in {"idle", "done"}

\* lines 543-586: a request arrives and is given to a free worker (the workers
\* are alike: the free one with the lowest number); the worker's locals start
\* afresh and the frames are scanned for a snapshot
Start(r, b) ==
  /\ Free(r)
  /\ \A q \in Reqs : q < r => ~Free(q)
  /\ started < MaxRequests
  /\ started' = started + 1
  /\ body' = [body EXCEPT ![r] = b]
  /\ welcome_full_state' = [welcome_full_state EXCEPT ![r] = ScanWelcome(b, Null)]
  /\ welcome_saved' = [welcome_saved EXCEPT ![r] = FALSE]
  /\ welcome_error' = [welcome_error EXCEPT ![r] = FALSE]
  /\ patches' = [patches EXCEPT ![r] = <<>>]
  /\ state' = [state EXCEPT ![r] = Null]
  /\ base' = [base EXCEPT ![r] = Null]
  /\ idx' = [idx EXCEPT ![r] = 1]
  /\ applied' = [applied EXCEPT ![r] = 0]
  /\ skipped' = [skipped EXCEPT ![r] = 0]
  /\ reasons' = [reasons EXCEPT ![r] = <<>>]
  /\ wr' = [wr EXCEPT ![r] = 0]
  /\ resp' = [resp EXCEPT ![r] = NoResp]
  /\ Goto(r, IF IsObj(ScanWelcome(b, Null)) THEN "seed_lock" ELSE "collect")
  /\ UNCHANGED shared
  /\ UNCHANGED diets

\* _state_lock, lines 22-25: flock blocks until the lock is free
Acquire(r, from, to) ==
  /\ pc[r] = from
  /\ lock = 0
  /\ lock' = r
  /\ wr' = [wr EXCEPT ![r] = 0]
  /\ Goto(r, to)
  /\ UNCHANGED diets

\* a temp file opened without truncation: what an earlier, failed write left
\* in it stays
WriteChunkNoTruncate(r, at, obj) ==
  /\ pc[r] = at
  /\ lock = r
  /\ wr[r] < NChunks
  /\ tmp' = File(IF tmp = Missing THEN obj ELSE tmp.val, wr[r] + 1)
  /\ wr' = [wr EXCEPT ![r] = wr[r] + 1]
  /\ UNCHANGED diets

\* _atomic_write_json, lines 35-38: one more piece of obj goes into the temp file
WriteChunk(r, at, obj) ==
  /\ pc[r] = at
  /\ lock = r
  /\ wr[r] < NChunks
  /\ tmp' = File(obj, wr[r] + 1)
  /\ wr' = [wr EXCEPT ![r] = wr[r] + 1]
  /\ UNCHANGED diets

\* a rename that does not wait for the whole value
WriteCompleteEarly(r) == wr[r] >= 1

\* _atomic_write_json, line 39: reached only when the with block has not raised
WriteComplete(r) == wr[r] = NChunks

\* a rename after which the flock is never released
ReplaceKeepsLock(r, at) ==
  /\ pc[r] = at
  /\ lock = r
  /\ WriteComplete(r)
  /\ doc' = tmp
  /\ tmp' = Missing
  /\ wr' = [wr EXCEPT ![r] = 0]
  /\ lock' = lock
  /\ UNCHANGED diets

\* os.replace, line 39, and the release of the lock, lines 27-31
Replace(r, at) ==
  /\ pc[r] = at
  /\ lock = r
  /\ WriteComplete(r)
  /\ doc' = tmp
  /\ tmp' = Missing
  /\ wr' = [wr EXCEPT ![r] = 0]
  /\ lock' = 0
  /\ UNCHANGED diets

\* a write that goes into the target itself leaves it as far as it got
AfterFailedWriteTorn(target, tmpfile) == tmpfile

\* the target file after _atomic_write_json has raised: never touched
AfterFailedWrite(target, tmpfile) == target

\* an I/O error that leaves the flock in place
WriteFailsKeepsLock(r, at) ==
  /\ pc[r] = at
  /\ lock = r
  /\ doc' = doc
  /\ wr' = [wr EXCEPT ![r] = 0]
  /\ lock' = lock
  /\ UNCHANGED diets

\* an I/O error inside _atomic_write_json: the lock is released on the way out
WriteFails(r, at) ==
  /\ pc[r] = at
  /\ lock = r
  /\ doc' = AfterFailedWrite(doc, tmp)
  /\ wr' = [wr EXCEPT ![r] = 0]
  /\ lock' = 0
  /\ UNCHANGED diets

\* line 592
SeedAcquire(r) ==
  /\ Acquire(r, "seed_lock", "seed_write")
  /\ UNCHANGED <<WELCOME_RECEIVED, doc, tmp, started, body, welcome_full_state,
                 welcome_saved, welcome_error, patches, state, base, idx, applied,
                 skipped, reasons, resp>>

\* a seed that counts as done although the lock file could not be opened
SeedLockFailsOpensGate(r) ==
  /\ pc[r] = "seed_lock"
  /\ welcome_error' = [welcome_error EXCEPT ![r] = TRUE]
  /\ WELCOME_RECEIVED' = TRUE
  /\ Goto(r, "collect")
  /\ UNCHANGED <<lock, doc, tmp, started, body, welcome_full_state, welcome_saved,
                 patches, state, base, idx, applied, skipped, reasons, wr, resp>>
  /\ UNCHANGED diets

\* lines 592, 597-598: the lock file cannot be opened
SeedLockFails(r) ==
  /\ pc[r] = "seed_lock"
  /\ welcome_error' = [welcome_error EXCEPT ![r] = TRUE]
  /\ Goto(r, "collect")
  /\ UNCHANGED <<shared, started, body, welcome_full_state, welcome_saved, patches,
                 state, base, idx, applied, skipped, reasons, wr, resp>>
  /\ UNCHANGED diets

\* line 593
SeedWrite(r) ==
  /\ WriteChunk(r, "seed_write", welcome_full_state[r])
  /\ UNCHANGED <<WELCOME_RECEIVED, lock, doc, started, pc, body, welcome_full_state,
                 welcome_saved, welcome_error, patches, state, base, idx, applied,
                 skipped, reasons, resp>>

\* line 593
SeedReplace(r) ==
  /\ Replace(r, "seed_write")
  /\ Goto(r, "seed_mark")
  /\ UNCHANGED <<WELCOME_RECEIVED, started, body, welcome_full_state, welcome_saved,
                 welcome_error, patches, state, base, idx, applied, skipped, reasons,
                 resp>>

\* the gate opened in a finally clause: also when the write has failed
SeedWriteFailsSetsGate(r) ==
  /\ WriteFails(r, "seed_write")
  /\ welcome_error' = [welcome_error EXCEPT ![r] = TRUE]
  /\ WELCOME_RECEIVED' = TRUE
  /\ Goto(r, "collect")
  /\ UNCHANGED <<tmp, started, body, welcome_full_state, welcome_saved, patches,
                 state, base, idx, applied, skipped, reasons, resp>>

\* a failed seed that closes the gate again
SeedWriteFailsClearsGate(r) ==
  /\ WriteFails(r, "seed_write")
  /\ welcome_error' = [welcome_error EXCEPT ![r] = TRUE]
  /\ WELCOME_RECEIVED' = FALSE
  /\ Goto(r, "collect")
  /\ UNCHANGED <<tmp, started, body, welcome_full_state, welcome_saved, patches,
                 state, base, idx, applied, skipped, reasons, resp>>

\* lines 593, 597-598
SeedWriteFails(r) ==
  /\ WriteFails(r, "seed_write")
  /\ welcome_error' = [welcome_error EXCEPT ![r] = TRUE]
  /\ Goto(r, "collect")
  /\ UNCHANGED <<WELCOME_RECEIVED, tmp, started, body, welcome_full_state,
                 welcome_saved, patches, state, base, idx, applied, skipped, reasons,
                 resp>>

\* lines 594-596
SeedMark(r) ==
  /\ pc[r] = "seed_mark"
  /\ welcome_saved' = [welcome_saved EXCEPT ![r] = TRUE]
  /\ WELCOME_RECEIVED' = TRUE
  /\ Goto(r, "collect")
  /\ UNCHANGED <<lock, doc, tmp, started, body, welcome_full_state, welcome_error,
                 patches, state, base, idx, applied, skipped, reasons, wr, resp>>
  /\ UNCHANGED diets

\* a gate that lets every batch through
GateOpenAlways == TRUE

\* line 613
GateOpen == WELCOME_RECEIVED

\* an empty batch that persists an empty document
NoPatchesRewrites(r) ==
  /\ pc[r] = "collect"
  /\ collect_patches_from_body(body[r]) = <<>>
  /\ patches' = [patches EXCEPT ![r] = <<>>]
  /\ Respond(r, NoPatchesResponse(r))
  /\ doc' = File(EmptyObj, NChunks)
  /\ UNCHANGED <<WELCOME_RECEIVED, lock, tmp, started, body, welcome_full_state,
                 welcome_saved, welcome_error, state, base, idx, applied, skipped,
                 reasons, wr>>
  /\ UNCHANGED diets

\* lines 601-610
NoPatches(r) ==
  /\ pc[r] = "collect"
  /\ collect_patches_from_body(body[r]) = <<>>
  /\ patches' = [patches EXCEPT ![r] = <<>>]
  /\ Respond(r, NoPatchesResponse(r))
  /\ UNCHANGED <<shared, started, body, welcome_full_state, welcome_saved,
                 welcome_error, state, base, idx, applied, skipped, reasons, wr>>
  /\ UNCHANGED diets

\* lines 601, 613-625
GateReject(r) ==
  /\ pc[r] = "collect"
  /\ collect_patches_from_body(body[r]) # <<>>
  /\ ~GateOpen
  /\ patches' = [patches EXCEPT ![r] = collect_patches_from_body(body[r])]
  /\ Respond(r, GateResponse(r, collect_patches_from_body(body[r])))
  /\ UNCHANGED <<shared, started, body, welcome_full_state, welcome_saved,
                 welcome_error, state, base, idx, applied, skipped, reasons, wr>>
  /\ UNCHANGED diets

\* lines 601, 613, 628
GatePass(r) ==
  /\ pc[r] = "collect"
  /\ collect_patches_from_body(body[r]) # <<>>
  /\ GateOpen
  /\ patches' = [patches EXCEPT ![r] = collect_patches_from_body(body[r])]
  /\ Goto(r, "load_lock")
  /\ UNCHANGED <<shared, started, body, welcome_full_state, welcome_saved,
                 welcome_error, state, base, idx, applied, skipped, reasons, wr, resp>>
  /\ UNCHANGED diets


\* line 629
LoadAcquire(r) ==
  /\ Acquire(r, "load_lock", "load")
  /\ UNCHANGED <<WELCOME_RECEIVED, doc, tmp, started, body, welcome_full_state,
                 welcome_saved, welcome_error, patches, state, base, idx, applied,
                 skipped, reasons, resp>>

\* line 629, outside any try: the lock file cannot be opened and the exception
\* leaves the handler; the caller gets a 500 that carries no counts
LoadLockFails(r) ==
  /\ pc[r] = "load_lock"
  /\ Respond(r, ExceptionResponse(r))
  /\ UNCHANGED <<shared, started, locals>>
  /\ UNCHANGED diets

\* lines 630-646, then the end of the with block of line 629.  ioerr: read_text
\* raises.  The lock is released on each of the three ways out.
Load(r) ==
  /\ pc[r] = "load"
  /\ lock = r
  /\ lock' = 0
  /\ \E ioerr \in BOOLEAN :
       IF doc = Missing THEN
         /\ Respond(r, MissingResponse(r, patches[r]))
         /\ UNCHANGED <<state, base, idx, applied, skipped, reasons>>
       ELSE IF ioerr \/ ~Readable(doc) THEN
         /\ Respond(r, UnreadableResponse(r, patches[r]))
         /\ UNCHANGED <<state, base, idx, applied, skipped, reasons>>
       ELSE
         /\ state' = [state EXCEPT ![r] = doc.val]
         /\ base' = [base EXCEPT ![r] = doc.val]
         /\ idx' = [idx EXCEPT ![r] = 1]
         /\ applied' = [applied EXCEPT ![r] = 0]
         /\ skipped' = [skipped EXCEPT ![r] = 0]
         /\ reasons' = [reasons EXCEPT ![r] = <<>>]
         /\ Goto(r, "apply")
         /\ UNCHANGED resp
  /\ UNCHANGED <<WELCOME_RECEIVED, doc, tmp, started, body, welcome_full_state,
                 welcome_saved, welcome_error, patches, wr>>
  /\ UNCHANGED diets

\* a loop that stops at the first patch that is not applied
LoopBreakOnSkip(i, ok, n) == IF ok THEN i + 1 ELSE n + 1

\* line 652: the loop goes on to the next patch whatever the outcome of this one
LoopNext(i, ok, n) == i + 1

\* line 652: the loop has gone through all of patches
LoopDone(r) == idx[r] > Len(patches[r])

\* a loop over one document that all requests share: each patch is applied to
\* what the first worker has at that moment
ApplyPatchShared(r) ==
  /\ pc[r] = "apply"
  /\ idx[r] <= Len(patches[r])
  /\ LET p == patches[r][idx[r]]
         res == apply_single_patch(state[1], IF p.isdict THEN p ELSE EmptyDict)
     IN /\ state' = [state EXCEPT ![r] = res.doc]
        /\ applied' = [applied EXCEPT ![r] = IF res.ok THEN @ + 1 ELSE @]
        /\ skipped' = [skipped EXCEPT ![r] = IF res.ok THEN @ ELSE @ + 1]
        /\ reasons' = [reasons EXCEPT ![r] = IF res.ok THEN @ ELSE Append(@, res.reason)]
        /\ idx' = [idx EXCEPT ![r] = LoopNext(idx[r], res.ok, Len(patches[r]))]
  /\ UNCHANGED <<shared, started, pc, body, welcome_full_state, welcome_saved,
                 welcome_error, patches, base, wr, resp>>
  /\ UNCHANGED diets

\* lines 652-659: one iteration of the loop
ApplyPatch(r) ==
  /\ pc[r] = "apply"
  /\ idx[r] <= Len(patches[r])
  /\ LET p == patches[r][idx[r]]
         res == apply_single_patch(state[r], IF p.isdict THEN p ELSE EmptyDict)
     IN /\ state' = [state EXCEPT ![r] = res.doc]
        /\ applied' = [applied EXCEPT ![r] = IF res.ok THEN @ + 1 ELSE @]
        /\ skipped' = [skipped EXCEPT ![r] = IF res.ok THEN @ ELSE @ + 1]
        /\ reasons' = [reasons EXCEPT ![r] = IF res.ok THEN @ ELSE Append(@, res.reason)]
        /\ idx' = [idx EXCEPT ![r] = LoopNext(idx[r], res.ok, Len(patches[r]))]
  /\ UNCHANGED <<shared, started, pc, body, welcome_full_state, welcome_saved,
                 welcome_error, patches, base, wr, resp>>
  /\ UNCHANGED diets

\* line 662
PersistAcquire(r) ==
  /\ LoopDone(r)
  /\ Acquire(r, "apply", "persist_write")
  /\ UNCHANGED <<WELCOME_RECEIVED, doc, tmp, started, body, welcome_full_state,
                 welcome_saved, welcome_error, patches, state, base, idx, applied,
                 skipped, reasons, resp>>

\* lines 662, 664-670: the lock file cannot be opened
PersistLockFails(r) ==
  /\ pc[r] = "apply"
  /\ LoopDone(r)
  /\ Respond(r, PersistErrorResponse(r, applied[r], skipped[r]))
  /\ UNCHANGED <<shared, started, locals>>
  /\ UNCHANGED diets

\* line 663
PersistWrite(r) ==
  /\ WriteChunk(r, "persist_write", state[r])
  /\ UNCHANGED <<WELCOME_RECEIVED, lock, doc, started, pc, body, welcome_full_state,
                 welcome_saved, welcome_error, patches, state, base, idx, applied,
                 skipped, reasons, resp>>

\* lines 663, 672-679
PersistReplace(r) ==
  /\ Replace(r, "persist_write")
  /\ Respond(r, OkResponse(r, applied[r], skipped[r], reasons[r]))
  /\ UNCHANGED <<WELCOME_RECEIVED, started, body, welcome_full_state, welcome_saved,
                 welcome_error, patches, state, base, idx, applied, skipped, reasons>>

\* lines 663-670
PersistWriteFails(r) ==
  /\ WriteFails(r, "persist_write")
  /\ Respond(r, PersistErrorResponse(r, applied[r], skipped[r]))
  /\ UNCHANGED <<WELCOME_RECEIVED, tmp, started, body, welcome_full_state,
                 welcome_saved, welcome_error, patches, state, base, idx, applied,
                 skipped, reasons>>

\* Seed: lines 588-598
SeedSteps(r) ==
  \/ SeedAcquire(r) \/ SeedLockFails(r) \/ SeedWrite(r) \/ SeedReplace(r)
  \/ SeedWriteFails(r) \/ SeedMark(r)

\* ApplyBatch past the gate: lines 627-679
BatchSteps(r) ==
  \/ GatePass(r)
  \/ LoadAcquire(r) \/ LoadLockFails(r) \/ Load(r)
  \/ ApplyPatch(r)
  \/ PersistAcquire(r) \/ PersistLockFails(r) \/ PersistWrite(r)
  \/ PersistReplace(r) \/ PersistWriteFails(r)

Handler(r) == SeedSteps(r) \/ NoPatches(r) \/ GateReject(r) \/ BatchSteps(r)

Next ==
  \E r \in Reqs :
    \/ \E b \in Bodies : Start(r, b)
    \/ Handler(r)

Spec == Init /\ [][Next]_vars

(***************************************************************************)
(* The store's files are plain files: something outside the engine can     *)
(* delete the document or leave it cut short, which is what lines 630-646  *)
(* provide for.  SpecEnv adds that to the handler's steps.  The handler    *)
(* reads the document at line 632 only, so the damage is placed where it   *)
(* can be seen: while a request is about to read.                          *)
(***************************************************************************)
AboutToRead == \E r \in Reqs : pc[r] = "load"

EnvDelete ==
  /\ AboutToRead
  /\ doc # Missing
  /\ doc' = Missing
  /\ UNCHANGED <<WELCOME_RECEIVED, lock, tmp, started, pc, locals, resp>>
  /\ UNCHANGED diets

EnvTruncate ==
  /\ AboutToRead
  /\ Readable(doc)
  /\ doc' = File(doc.val, 0)
  /\ UNCHANGED <<WELCOME_RECEIVED, lock, tmp, started, pc, locals, resp>>
  /\ UNCHANGED diets

NextEnv == Next \/ EnvDelete \/ EnvTruncate

SpecEnv == Init /\ [][NextEnv]_vars

(***************************************************************************)
(* Contention: a seeded store whose document holds an array, and workers   *)
(* that each post one batch of appends to it.  Worker k appends the        *)
(* numbers 10 k + 1, 10 k + 2, ... so that every appended element is told  *)
(* apart.                                                                  *)
(***************************************************************************)
MaxAppend == 2

AppendBatch(k, n) == [i \in 1..n |-> App(10 * k + i)]

InitContention ==
  /\ WELCOME_RECEIVED = TRUE
  /\ lock = 0
  /\ doc = File(Snap2, NChunks)
  /\ tmp = Missing
  /\ started = 0
  /\ pc = [r \in Reqs |-> "idle"]
  /\ body = [r \in Reqs |-> <<>>]
  /\ welcome_full_state = [r \in Reqs |-> Null]
  /\ welcome_saved = [r \in Reqs |-> FALSE]
  /\ welcome_error = [r \in Reqs |-> FALSE]
  /\ patches = [r \in Reqs |-> <<>>]
  /\ state = [r \in Reqs |-> Null]
  /\ base = [r \in Reqs |-> Null]
  /\ idx = [r \in Reqs |-> 1]
  /\ applied = [r \in Reqs |-> 0]
  /\ skipped = [r \in Reqs |-> 0]
  /\ reasons = [r \in Reqs |-> <<>>]
  /\ wr = [r \in Reqs |-> 0]
  /\ resp = [r \in Reqs |-> NoResp]
  /\ DietsStart

StartAppend(r, n) ==
  /\ pc[r] = "idle"
  /\ Start(r, <<PartialState(AppendBatch(r, n))>>)

NextContention ==
  \E r \in Reqs :
    \/ \E n \in 1..MaxAppend : StartAppend(r, n)
    \/ BatchSteps(r)

SpecContention == InitContention /\ [][NextContention]_vars


(***************************************************************************)
(* The posted body as JSON.  A dict is a record of the keys the handler    *)
(* looks at (frames, type, msg, patches, fullState), each JAbsent when the *)
(* dict has no such key; other keys (dir, ts) play no part.  A frame of a  *)
(* log is a dict with msg; a bare message is a dict with type.             *)
(***************************************************************************)
JAbsent == [t |-> "absent", v |-> 0]
JStr(s) == [t |-> "str", v |-> s]
JList(s) == [t |-> "list", v |-> s]
JDict(fr, ty, m, ps, fs) ==
  [t |-> "dict", frames |-> fr, type |-> ty, msg |-> m, patches |-> ps, fullState |-> fs]
IsDict(x) == x.t = "dict"
IsList(x) == x.t = "list"
HasType(x, name) == x.type.t = "str" /\ x.type.v = name

\* 'key' in dict, given the value stored for the key
Has(x) == x.t # "absent"

\* a normaliser that forgets the single logged frame {dir, msg, ts}
body_frames_without_msg(b) ==
  IF IsDict(b) THEN
    IF IsList(b.frames) THEN b.frames.v
    ELSE IF Has(b.type) /\ IsList(b.patches) THEN <<b>>
    ELSE IF IsList(b.patches) THEN <<b>>
    ELSE <<>>
  ELSE IF IsList(b) THEN b.v
  ELSE <<>>

\* _collect_patches_from_body, lines 217-227: the frames of the body
body_frames(b) ==
  IF IsDict(b) THEN
    IF IsList(b.frames) THEN b.frames.v
    ELSE IF Has(b.type) /\ IsList(b.patches) THEN <<b>>
    ELSE IF Has(b.msg) THEN <<b>>
    ELSE IF IsList(b.patches) THEN <<b>>
    ELSE <<>>
  ELSE IF IsList(b) THEN b.v
  ELSE <<>>

\* lines 230-236: what one frame adds to patches
frame_patches(fr) ==
  LET msg == IF IsDict(fr) THEN fr.msg ELSE JAbsent IN
  IF IsDict(msg) /\ HasType(msg, "PartialState") /\ IsList(msg.patches) THEN msg.patches.v
  ELSE IF IsDict(fr) /\ HasType(fr, "PartialState") /\ IsList(fr.patches) THEN fr.patches.v
  ELSE <<>>

\* lines 229-238: patches.extend, frame after frame
RECURSIVE extend_patches(_, _)
extend_patches(patches_so_far, frames) ==
  IF frames = <<>> THEN patches_so_far
  ELSE extend_patches(patches_so_far \o frame_patches(Head(frames)), Tail(frames))

\* _collect_patches_from_body on a JSON body
collect_patches(b) == extend_patches(<<>>, body_frames(b))

\* api_wslog, lines 546-556
frames_to_log(b) ==
  IF IsDict(b) THEN
    IF IsList(b.frames) THEN b.frames.v
    ELSE IF Has(b.type) THEN << JDict(JAbsent, JAbsent, b, JAbsent, JAbsent) >>
    ELSE IF Has(b.msg) THEN <<b>>
    ELSE <<>>
  ELSE IF IsList(b) THEN b.v
  ELSE <<>>

\* _get_msg, lines 572-578; JAbsent is None
get_msg(frame) ==
  IF IsDict(frame) THEN
    IF IsDict(frame.msg) THEN frame.msg
    ELSE IF Has(frame.type) THEN frame
    ELSE JAbsent
  ELSE JAbsent

\* line 580
scan_frames(b) ==
  IF frames_to_log(b) # <<>> THEN frames_to_log(b)
  ELSE IF IsDict(b) THEN <<b>> ELSE <<>>

\* a scan that stops at the first snapshot it finds
RECURSIVE scan_welcome_first(_, _)
scan_welcome_first(found, frames) ==
  IF frames = <<>> \/ found # Null THEN found
  ELSE LET msg == get_msg(Head(frames)) IN
       scan_welcome_first(IF IsDict(msg) /\ HasType(msg, "Welcome") /\ IsObj(msg.fullState)
                          THEN msg.fullState ELSE found,
                          Tail(frames))

\* lines 581-586: a later Welcome with an object fullState overwrites an earlier
RECURSIVE scan_welcome(_, _)
scan_welcome(found, frames) ==
  IF frames = <<>> THEN found
  ELSE LET msg == get_msg(Head(frames)) IN
       scan_welcome(IF IsDict(msg) /\ HasType(msg, "Welcome") /\ IsObj(msg.fullState)
                    THEN msg.fullState ELSE found,
                    Tail(frames))

\* the value of welcome_full_state at line 588; Null is None
welcome_of_body(b) == scan_welcome(Null, scan_frames(b))

(***************************************************************************)
(* Extraction: one request, from the arrival of its body over the scan for *)
(* a snapshot (586) and the seed (588-598) to the collection of the        *)
(* patches (601).                                                          *)
(* The bodies are the three envelope shapes over frames that are logged    *)
(* frames or bare messages of the types PartialState, Welcome and Ping,    *)
(* well-formed or not, and a frame that is no object at all.               *)
(***************************************************************************)
MaxFrames == 2
Logged(m) == JDict(JAbsent, JAbsent, m, JAbsent, JAbsent)
MsgPartial(ps) == JDict(JAbsent, JStr("PartialState"), JAbsent, JList(ps), JAbsent)
MsgPartialNoList == JDict(JAbsent, JStr("PartialState"), JAbsent, JStr("none"), JAbsent)
MsgWelcome(fs) == JDict(JAbsent, JStr("Welcome"), JAbsent, JAbsent, fs)
MsgPing == JDict(JAbsent, JStr("Ping"), JAbsent, JAbsent, JAbsent)
Frames ==
  { Logged(MsgPartial(<<App(1)>>)), MsgPartial(<<App(2), App(3)>>),
    Logged(MsgWelcome(Snap1)), MsgWelcome(Snap2), Logged(MsgWelcome(JStr("none"))),
    Logged(MsgPing), Logged(MsgPartialNoList), Num(0) }
FrameLists == UNION { [1..k -> Frames] : k \in 0..MaxFrames }
Wrapper(fs) == JDict(JList(fs), JAbsent, JAbsent, JAbsent, JAbsent)
Envelopes ==
  {f \in Frames : IsDict(f)} \cup {JList(fs) : fs \in FrameLists}
    \cup {Wrapper(fs) : fs \in FrameLists}

\* lines 543-586: the body arrives and is scanned for a snapshot
Extract(r, e) ==
  /\ \A q \in Reqs : pc[q] = "idle"
  /\ body' = [body EXCEPT ![r] = e]
  /\ welcome_full_state' = [welcome_full_state EXCEPT ![r] = welcome_of_body(e)]
  /\ Goto(r, IF IsObj(welcome_of_body(e)) THEN "seed_lock" ELSE "collect")
  /\ UNCHANGED <<shared, started, welcome_saved, welcome_error, patches, state, base,
                 idx, applied, skipped, reasons, wr, resp>>
  /\ UNCHANGED diets

\* line 601
Collect(r) ==
  /\ pc[r] = "collect"
  /\ patches' = [patches EXCEPT ![r] = collect_patches(body[r])]
  /\ Goto(r, "extracted")
  /\ UNCHANGED <<shared, started, body, welcome_full_state, welcome_saved,
                 welcome_error, state, base, idx, applied, skipped, reasons, wr, resp>>
  /\ UNCHANGED diets

NextExtract ==
  \E r \in Reqs : (\E e \in Envelopes : Extract(r, e)) \/ SeedSteps(r) \/ Collect(r)
SpecExtract == Init /\ [][NextExtract]_vars

(***************************************************************************)
(* Scheduling.  A request thread that is not blocked keeps running: weak   *)
(* fairness of its steps, where the step of the loop is named by what it   *)
(* does to the loop index (under Next only ApplyPatch(r) moves idx[r] on   *)
(* inside the loop).  A thread blocked in flock is granted the lock if the *)
(* lock is free again and again: strong fairness of the grants.  Arrivals  *)
(* of requests and failures to open the lock file are under no fairness.   *)
(***************************************************************************)
WaitsForLock(r) == pc[r] \in {"seed_lock", "load_lock"} \/ (pc[r] = "apply" /\ LoopDone(r))
Granted(r) == SeedAcquire(r) \/ LoadAcquire(r) \/ PersistAcquire(r)
LoopStep(r) == pc[r] = "apply" /\ ~LoopDone(r) /\ idx' = [idx EXCEPT ![r] = idx[r] + 1]
Runs(r) ==
  \/ SeedWrite(r) \/ SeedReplace(r) \/ SeedWriteFails(r) \/ SeedMark(r)
  \/ NoPatches(r) \/ GateReject(r) \/ GatePass(r)
  \/ Load(r)
  \/ PersistWrite(r) \/ PersistReplace(r) \/ PersistWriteFails(r)
Fairness ==
  \A r \in Reqs : WF_vars(Runs(r)) /\ WF_idx(LoopStep(r)) /\ SF_vars(Granted(r))

\* the fair specification: on a store that has been seeded, a request is a
\* seed or a batch of one patch (a batch rejected at the gate returns at once
\* and is left to Spec)
LiveBodies == { <<Welcome(Snap1)>>, <<PartialState(<<App(1)>>)>> }
NextLive ==
  \E r \in Reqs :
    \/ \E b \in LiveBodies : Start(r, b)
    \/ SeedSteps(r) \/ NoPatches(r) \/ BatchSteps(r)
SpecLive == InitContention /\ [][NextLive]_vars /\ Fairness

(***************************************************************************)
(* Seeds only: every request posts one Welcome frame, each to a worker of  *)
(* its own, and nothing else runs.                                         *)
(***************************************************************************)
Snaps == {Snap1, Snap2}
StartSeed(r, s) == pc[r] = "idle" /\ Start(r, <<Welcome(s)>>)
NextSeeds ==
  \E r \in Reqs : (\E s \in Snaps : StartSeed(r, s)) \/ SeedSteps(r) \/ NoPatches(r)
SpecSeeds == Init /\ [][NextSeeds]_vars

(***************************************************************************)
(* Batches of skipped patches, one request at a time on a seeded store:    *)
(* n entries, the first k with '-' in the middle of the path and the rest  *)
(* not JSON objects.                                                       *)
(***************************************************************************)
MaxSkips == 6
SkipBatch(n, k) == [i \in 1..n |-> IF i <= k THEN MidDash ELSE NotADict]
StartSkips(r, n, k) ==
  /\ \A q \in Reqs : Free(q)
  /\ Start(r, <<PartialState(SkipBatch(n, k))>>)
NextReasons ==
  \E r \in Reqs :
    \/ \E n \in 1..MaxSkips : \E k \in 0..n : StartSkips(r, n, k)
    \/ BatchSteps(r)
SpecReasons == InitContention /\ [][NextReasons]_vars

(***************************************************************************)
(* Frames that are neither snapshot nor partial update: requests whose     *)
(* frames are all of another type (or that have no frame), among seeds.    *)
(***************************************************************************)
IgnoredBodies == { <<>>, <<OtherFrame>>, <<OtherFrame, OtherFrame>> }
NextIgnored ==
  \E r \in Reqs :
    \/ \E b \in IgnoredBodies \cup {<<Welcome(Snap1)>>} : Start(r, b)
    \/ SeedSteps(r) \/ NoPatches(r)
SpecIgnored == Init /\ [][NextIgnored]_vars

(***************************************************************************)
(* One patch.  AtApply(d, p): request 1 has passed the gate and loaded the *)
(* document d, and is about to apply its only patch p (line 652).          *)
(***************************************************************************)
AtApply(d, p) ==
  /\ WELCOME_RECEIVED = TRUE
  /\ lock = 0
  /\ doc = File(d, NChunks)
  /\ tmp = Missing
  /\ started = 1
  /\ pc = [r \in Reqs |-> IF r = 1 THEN "apply" ELSE "idle"]
  /\ body = [r \in Reqs |-> IF r = 1 THEN <<PartialState(<<p>>)>> ELSE <<>>]
  /\ welcome_full_state = [r \in Reqs |-> Null]
  /\ welcome_saved = [r \in Reqs |-> FALSE]
  /\ welcome_error = [r \in Reqs |-> FALSE]
  /\ patches = [r \in Reqs |-> IF r = 1 THEN <<p>> ELSE <<>>]
  /\ state = [r \in Reqs |-> IF r = 1 THEN d ELSE Null]
  /\ base = [r \in Reqs |-> IF r = 1 THEN d ELSE Null]
  /\ idx = [r \in Reqs |-> 1]
  /\ applied = [r \in Reqs |-> 0]
  /\ skipped = [r \in Reqs |-> 0]
  /\ reasons = [r \in Reqs |-> <<>>]
  /\ wr = [r \in Reqs |-> 0]
  /\ resp = [r \in Reqs |-> NoResp]
  /\ DietsStart

\* the loop of lines 652-659 alone
NextApply == \E r \in Reqs : ApplyPatch(r)

(***************************************************************************)
(* Paths: an add whose path is any string of up to MaxPointerLen           *)
(* characters over '/', '~', '0', '1' and 'a', on the document {"a": [0]}. *)
(***************************************************************************)
MaxPointerLen == 4
PointerChars == {"/", "~", "0", "1", "a"}
Pointers == UNION { [1..k -> PointerChars] : k \in 0..MaxPointerLen }
InitPointer == \E p \in Pointers : AtApply(Snap2, Patch("add", p, Num(7)))
SpecPointer == InitPointer /\ [][NextApply]_vars

(***************************************************************************)
(* Properties.                                                             *)
(***************************************************************************)
Answered(r, k) == pc[r] = "done" /\ resp[r].kind = k
\* a batch that went through the gate and was answered with kind k
BatchAnswered(r, k) == Answered(r, k) /\ ~resp[r].requiresWelcome /\ patches[r] # <<>>
ArrayA(f) == f.val.v[KeyA].v
Occurrences(s, x) == Cardinality({j \in 1..Len(s) : s[j] = x})

\* the loop of lines 648-659 as one fold: document and counts after all of ps
RECURSIVE FoldPatches(_, _)
FoldPatches(d, ps) ==
  IF ps = <<>> THEN [doc |-> d, applied |-> 0, skipped |-> 0]
  ELSE LET p == Head(ps)
           res == apply_single_patch(d, IF p.isdict THEN p ELSE EmptyDict)
           rest == FoldPatches(res.doc, Tail(ps))
       IN [doc |-> rest.doc,
           applied |-> rest.applied + (IF res.ok THEN 1 ELSE 0),
           skipped |-> rest.skipped + (IF res.ok THEN 0 ELSE 1)]

\* d with exactly those patches of ps applied that individually succeed
RECURSIVE ApplySuccessful(_, _)
ApplySuccessful(d, ps) ==
  IF ps = <<>> THEN d
  ELSE LET p == Head(ps)
           res == apply_single_patch(d, IF p.isdict THEN p ELSE EmptyDict)
       IN ApplySuccessful(IF res.ok THEN res.doc ELSE d, Tail(ps))

\* C1: after concurrent batches that each append n elements to the array of a
\* seeded store have all completed, the persisted array is n elements longer
\* per batch and holds every appended element exactly once.
C1_NoLostUpdates ==
  \A n \in 1..MaxAppend :
    (\A r \in Reqs : BatchAnswered(r, "ok") /\ Len(patches[r]) = n) =>
      /\ Readable(doc)
      /\ Len(ArrayA(doc)) = Len(Snap2.v[KeyA].v) + NReq * n
      /\ \A r \in Reqs : \A i \in 1..n : Occurrences(ArrayA(doc), patches[r][i].value) = 1

\* C2: from the moment a batch has loaded the document until it has persisted
\* its result, the document on disk is still the one it loaded: nobody else
\* writes in between.
C2_CriticalSection ==
  \A r \in Reqs : pc[r] \in {"apply", "persist_write"} => doc = File(base[r], NChunks)

C4_GateMonotonic == [][WELCOME_RECEIVED => WELCOME_RECEIVED']_vars

\* C4 witness: the store is seeded and a later seed has failed
C4_Witness ==
  /\ WELCOME_RECEIVED
  /\ \E r \in Reqs : welcome_error[r] /\ ~welcome_saved[r] /\ pc[r] = "done"

\* C5: the document file, when it exists, holds the whole of a JSON object;
\* pieces are only ever in the temporary file.
C5_DocNeverTorn == doc # Missing => (doc.n = NChunks /\ IsObj(doc.val))

\* C5 witness: a document is in place while a write of another value has
\* stopped half-way, its pieces left in the temporary file
C5_Witness ==
  /\ doc # Missing
  /\ tmp # Missing /\ 0 < tmp.n /\ tmp.n < NChunks /\ tmp.val # doc.val
  /\ \E r \in Reqs : Answered(r, "persist_error") \/ (welcome_error[r] /\ pc[r] = "collect")

\* C6: what a batch has persisted is the document it loaded with exactly its
\* individually successful patches applied.
C6_OnlySuccessfulPersisted ==
  \A r \in Reqs :
    BatchAnswered(r, "ok") => state[r] = ApplySuccessful(base[r], patches[r])

C8_SkipDoesNotAbort ==
  \A r \in Reqs :
    LET n == Len(patches[r])
        sofar == FoldPatches(base[r], SubSeq(patches[r], 1, idx[r] - 1))
        all == FoldPatches(base[r], patches[r])
    IN /\ pc[r] = "apply" =>
            /\ idx[r] \in 1..(n + 1)
            /\ state[r] = sofar.doc /\ applied[r] = sofar.applied /\ skipped[r] = sofar.skipped
       /\ pc[r] = "persist_write" =>
            /\ idx[r] = n + 1
            /\ state[r] = all.doc /\ applied[r] = all.applied /\ skipped[r] = all.skipped
       /\ (BatchAnswered(r, "ok") \/ BatchAnswered(r, "persist_error")) =>
            /\ state[r] = all.doc
            /\ resp[r].applied = all.applied /\ resp[r].skipped = all.skipped
            /\ resp[r].applied + resp[r].skipped = n

\* C8 witness: a batch whose first patch was skipped has applied a later one
\* and was answered ok
C8_Witness ==
  \E r \in Reqs :
    /\ BatchAnswered(r, "ok")
    /\ ~apply_single_patch(base[r], patches[r][1]).ok
    /\ resp[r].skipped >= 1 /\ resp[r].applied >= 1

\* C9: a load that finds the document missing or unreadable ends the request
\* with a 503 that reports applied = 0 and skipped = len(patches); no patch is
\* applied and neither file is touched.
C9_UnreadableAborts ==
  [][\A r \in Reqs :
       (pc[r] = "load" /\ pc'[r] # "load" /\ (doc = Missing \/ doc.n # NChunks)) =>
         /\ pc'[r] = "done"
         /\ resp'[r].kind = (IF doc = Missing THEN "state_missing" ELSE "state_unreadable")
         /\ resp'[r].code = 503 /\ ~resp'[r].ok
         /\ resp'[r].applied = 0 /\ resp'[r].skipped = Len(patches[r])
         /\ state'[r] = Null /\ applied'[r] = 0
         /\ doc' = doc /\ tmp' = tmp]_vars

\* C9 witness: on a seeded store one batch found the document missing and
\* another found it unreadable
C9_Witness ==
  /\ WELCOME_RECEIVED
  /\ \E r \in Reqs : Answered(r, "state_missing") /\ resp[r].skipped >= 1
  /\ \E r \in Reqs : Answered(r, "state_unreadable") /\ resp[r].skipped >= 1

\* C10: the step in which the persist of a batch fails leaves the document
\* file as it was and answers with a 500 that carries the counts of the loop.
C10_PersistFailureKeepsCounts ==
  [][\A r \in Reqs :
       (pc[r] # "done" /\ pc'[r] = "done" /\ resp'[r].kind = "persist_error") =>
         /\ doc' = doc
         /\ resp'[r].code = 500 /\ ~resp'[r].ok
         /\ resp'[r].applied = applied[r] /\ resp'[r].skipped = skipped[r]
         /\ applied[r] = FoldPatches(base[r], patches[r]).applied
         /\ skipped[r] = FoldPatches(base[r], patches[r]).skipped]_vars

\* C10 witness: a batch that applied a patch in memory was answered with the
\* persist error, and the document on disk is not its result
C10_Witness ==
  \E r \in Reqs :
    /\ Answered(r, "persist_error")
    /\ resp[r].applied >= 1
    /\ Readable(doc) /\ doc.val # state[r]
    /\ tmp # Missing /\ tmp.val = state[r]

\* the program points inside a with _state_lock() block
InCriticalSection(r) == pc[r] \in {"seed_write", "load", "persist_write"}

\* C11: a request that is outside the with blocks (not yet in one, between
\* two, or returned on any path) does not hold the lock; the lock is held only
\* by a request inside a with block and is free when there is none.
C11_LockReleased ==
  /\ \A r \in Reqs : ~InCriticalSection(r) => lock # r
  /\ lock # 0 => (lock \in Reqs /\ InCriticalSection(lock))
  /\ (\A r \in Reqs : ~InCriticalSection(r)) => lock = 0

\* C11 witness: one batch has returned on the missing-document path, another
\* on the persist-failure path, and the lock is free
C11_Witness ==
  /\ lock = 0
  /\ \E r \in Reqs : Answered(r, "state_missing")
  /\ \E r \in Reqs : Answered(r, "persist_error")

\* C12: with seeds only, every change of the document is the rename of one
\* seed and leaves exactly that seed's fullState, whole; so once all seeds have
\* completed the document is the fullState of a seed that succeeded (or does
\* not exist when none did).
C12_LastSeedWins ==
  /\ [][doc' # doc =>
          \E r \in Reqs :
            /\ pc[r] = "seed_write" /\ pc'[r] = "seed_mark"
            /\ doc' = File(welcome_full_state[r], NChunks)]_vars
  /\ []((\A r \in Reqs : pc[r] = "done") =>
          IF \E r \in Reqs : welcome_saved[r]
          THEN \E r \in Reqs : welcome_saved[r] /\ doc = File(welcome_full_state[r], NChunks)
          ELSE doc = Missing)

\* C12 witness: two seeds with different snapshots have both succeeded and
\* the document is the snapshot of the one that started first
C12_Witness ==
  /\ \A r \in Reqs : pc[r] = "done" /\ welcome_saved[r]
  /\ welcome_full_state[1] # welcome_full_state[2]
  /\ doc = File(welcome_full_state[1], NChunks)

\* C13: the gate opens only in the step of a seed that follows its completed
\* rename; whenever the gate is open the document exists and holds a whole
\* object, and a request is loading, applying or persisting patches only while
\* the gate is open.
C13_SeededAfterPersist ==
  /\ [][(~WELCOME_RECEIVED /\ WELCOME_RECEIVED') =>
          \E r \in Reqs :
            /\ pc[r] = "seed_mark" /\ welcome_saved'[r]
            /\ doc # Missing /\ doc.n = NChunks /\ doc.val \in Snaps]_vars
  /\ [](WELCOME_RECEIVED => (doc # Missing /\ doc.n = NChunks /\ IsObj(doc.val)))
  /\ [](\A r \in Reqs :
          pc[r] \in {"load_lock", "load", "apply", "persist_write"} => WELCOME_RECEIVED)

\* C13 witness: the gate is open and a batch that went through it has applied
\* a patch and persisted the result
C13_Witness ==
  /\ WELCOME_RECEIVED
  /\ \E r \in Reqs : BatchAnswered(r, "ok") /\ resp[r].applied >= 1

\* C14: under fair scheduling and fair granting of the lock every request that
\* has started returns a response; a request waiting for the lock never holds
\* it, and whenever the lock is taken its holder is inside a with block, from
\* which it goes on without waiting.
C14_EveryRequestReturns ==
  /\ [](\A r \in Reqs : WaitsForLock(r) => lock # r)
  /\ [](lock # 0 => (InCriticalSection(lock) /\ ENABLED Runs(lock)))
  /\ \A r \in Reqs : (pc[r] \notin {"idle", "done"}) ~> (pc[r] = "done")

\* C14 witness: a request waits for the lock while another request holds it
C14_Witness ==
  \E r, q \in Reqs : r # q /\ pc[r] = "load_lock" /\ lock = q /\ pc[q] = "persist_write"

\* C15: the reasons an answered batch reports are at most 5, are pairwise
\* different, are skip reasons of the batch, and end with the reason of the
\* last skipped patch.
C15_DistinctRecentReasons ==
  \A r \in Reqs :
    BatchAnswered(r, "ok") =>
      LET rs == resp[r].reasons IN
      /\ Len(rs) <= 5
      /\ \A i, j \in 1..Len(rs) : i # j => rs[i] # rs[j]
      /\ \A i \in 1..Len(rs) : \E j \in 1..Len(reasons[r]) : rs[i] = reasons[r][j]
      /\ reasons[r] # <<>> => rs # <<>> /\ rs[Len(rs)] = reasons[r][Len(reasons[r])]

\* the frames of an envelope and the message of a frame, as the claims name them
EnvelopeFrames(e) ==
  IF IsList(e) THEN e.v ELSE IF IsList(e.frames) THEN e.frames.v ELSE <<e>>
MessageOf(fr) == IF IsDict(fr) /\ Has(fr.msg) THEN fr.msg ELSE fr
YieldsPatches(fr) ==
  IsDict(MessageOf(fr)) /\ HasType(MessageOf(fr), "PartialState")
    /\ IsList(MessageOf(fr).patches)
RECURSIVE ConcatYields(_)
ConcatYields(frames) ==
  IF frames = <<>> THEN <<>>
  ELSE (IF YieldsPatches(Head(frames)) THEN MessageOf(Head(frames)).patches.v ELSE <<>>)
         \o ConcatYields(Tail(frames))

\* C16: for each of the three envelope shapes the extracted patches are the
\* patches lists of the frames whose message is a PartialState with a list of
\* patches, concatenated in frame order, nothing doubled and nothing left out.
C16_ExtractionInOrder ==
  \A r \in Reqs :
    pc[r] = "extracted" => patches[r] = ConcatYields(EnvelopeFrames(body[r]))

\* C16 witness: a wrapper whose two frames, a bare message and a logged
\* frame, both carry patches
C16_Witness ==
  \E r \in Reqs :
    /\ pc[r] = "extracted" /\ IsDict(body[r]) /\ IsList(body[r].frames)
    /\ patches[r] = <<App(2), App(3), App(1)>>

\* the snapshot frames of an envelope and the last of them, as C17 names them
IsSnapshotFrame(fr) ==
  IsDict(MessageOf(fr)) /\ HasType(MessageOf(fr), "Welcome")
    /\ IsObj(MessageOf(fr).fullState)
LastSnapshot(frames) ==
  LET at == {i \in 1..Len(frames) : IsSnapshotFrame(frames[i])} IN
  IF at = {} THEN Null
  ELSE MessageOf(frames[CHOOSE i \in at : \A j \in at : j <= i]).fullState

\* C17: the snapshot a request seeds is the fullState of the last snapshot
\* frame of its envelope: that is what the scan leaves in welcome_full_state,
\* and nothing else is ever written to the temporary file or to the document.
C17_LastSnapshotWins ==
  \A r \in Reqs :
    pc[r] # "idle" =>
      /\ welcome_full_state[r] = LastSnapshot(EnvelopeFrames(body[r]))
      /\ tmp # Missing => tmp.val = LastSnapshot(EnvelopeFrames(body[r]))
      /\ doc # Missing => doc = File(LastSnapshot(EnvelopeFrames(body[r])), NChunks)

\* C17 witness: a list of two snapshot frames, Snap2 first and Snap1 last, has
\* been seeded and the document is Snap1
C17_Witness ==
  \E r \in Reqs :
    /\ pc[r] = "extracted" /\ welcome_saved[r]
    /\ body[r] = JList(<<MsgWelcome(Snap2), Logged(MsgWelcome(Snap1))>>)
    /\ doc = File(Snap1, NChunks)

\* C18: a request whose frames are all of another type is answered ok (200)
\* with applied = 0 and skipped = 0 and without a seed; none of its steps
\* changes the document, the temporary file or the gate; and no step at all
\* makes an existing document disappear.
C18_IgnoredFramesChangeNothing ==
  /\ [](\A r \in Reqs :
          (body[r] \in IgnoredBodies /\ pc[r] = "done") =>
            /\ resp[r].ok /\ resp[r].code = 200
            /\ resp[r].applied = 0 /\ resp[r].skipped = 0
            /\ ~resp[r].welcomeSaved /\ ~resp[r].welcomeError)
  /\ [][\A r \in Reqs :
          (body'[r] \in IgnoredBodies /\ pc'[r] # pc[r]) =>
            UNCHANGED <<doc, tmp, WELCOME_RECEIVED>>]_vars
  /\ [][doc # Missing => doc' # Missing]_vars

\* C18 witness: after a seed, a request with two Ping frames has been answered
\* and the seeded document is in place
C18_Witness ==
  \E r \in Reqs :
    /\ Answered(r, "ok") /\ body[r] = <<OtherFrame, OtherFrame>>
    /\ WELCOME_RECEIVED /\ doc = File(Snap1, NChunks)

\* re-encoding of decoded tokens: '~' to '~0', '/' to '~1', '/' before each token
RECURSIVE EscapeToken(_)
EscapeToken(tok) ==
  IF tok = <<>> THEN <<>>
  ELSE (IF Head(tok) = "~" THEN <<"~", "0">>
        ELSE IF Head(tok) = "/" THEN <<"~", "1">>
        ELSE <<Head(tok)>>) \o EscapeToken(Tail(tok))
RECURSIVE EncodeTokens(_)
EncodeTokens(toks) ==
  IF toks = <<>> THEN <<>>
  ELSE <<"/">> \o EscapeToken(Head(toks)) \o EncodeTokens(Tail(toks))
RoundTrips(path) == EncodeTokens(json_pointer_tokens(path)) = path
\* the path of the one patch of request r
PathOf(r) == patches[r][1].path
\* empty, or starting with '/' and with every '~' followed by '0' or '1'
WellFormedPointer(p) ==
  \/ p = <<>>
  \/ /\ Head(p) = "/"
     /\ \A i \in 1..Len(p) : p[i] = "~" => (i < Len(p) /\ p[i + 1] \in {"0", "1"})

\* C19 (as claimed): for every path string a request brings, decoding and
\* re-encoding reproduces the string.
C19_RoundTripAllStrings ==
  \A r \in Reqs : patches[r] # <<>> => RoundTrips(PathOf(r))

\* C19 (amended): for every path string that is empty, or starts with '/' and
\* has each '~' followed by '0' or '1', decoding and re-encoding reproduces
\* the string.
C19_RoundTripPointers ==
  \A r \in Reqs :
    (patches[r] # <<>> /\ WellFormedPointer(PathOf(r))) => RoundTrips(PathOf(r))

\* C19 witness: the add at '/~01' has been applied: it was resolved to the one
\* token '~1' and set that key of the document
C19_Witness ==
  \E r \in Reqs :
    /\ pc[r] = "apply" /\ LoopDone(r) /\ applied[r] = 1
    /\ PathOf(r) = <<"/", "~", "0", "1">>
    /\ json_pointer_tokens(PathOf(r)) = << <<"~", "1">> >>
    /\ <<"~", "1">> \in DOMAIN state[r].v

(***************************************************************************)
(* Container creation: one add of the value 5 on {} or on {"a": [0]},      *)
(* at a path of up to MaxTokens tokens.                                    *)
(***************************************************************************)
MaxTokens == 4
PathTokens == { <<"a">>, <<"b">>, <<"c">>, <<"0">>, <<"1">>, <<"-">>, <<"-", "1">> }
TokenLists == UNION { [1..k -> PathTokens] : k \in 1..MaxTokens }
InferDocs == { EmptyObj, Snap2 }
InitInfer ==
  \E d \in InferDocs, toks \in TokenLists :
    AtApply(d, Patch("add", EncodeTokens(toks), Num(5)))
SpecInfer == InitInfer /\ [][NextApply]_vars

\* the value of document d at the tokens toks, JAbsent where there is none
RECURSIVE ValueAt(_, _)
ValueAt(d, toks) ==
  IF toks = <<>> THEN d
  ELSE IF IsObj(d) THEN
    IF Head(toks) \in DOMAIN d.v THEN ValueAt(d.v[Head(toks)], Tail(toks)) ELSE JAbsent
  ELSE IF IsArr(d) THEN
    IF AllDigits(Head(toks)) /\ NatVal(Head(toks)) < Len(d.v)
    THEN ValueAt(d.v[NatVal(Head(toks)) + 1], Tail(toks)) ELSE JAbsent
  ELSE JAbsent

\* the tokens of the add of request r
TokensOf(r) == json_pointer_tokens(PathOf(r))
\* the add of request r has been through line 652
AddDone(r) ==
  pc[r] = "apply" /\ LoopDone(r) /\ patches[r] # <<>> /\ patches[r][1].op = "add"
\* the add of request r created the container at its first i tokens
CreatedAt(r, i) ==
  LET before == ValueAt(base[r], SubSeq(TokensOf(r), 1, i))
      after == ValueAt(state[r], SubSeq(TokensOf(r), 1, i))
  IN /\ before.t \in {"absent", "null"}
     /\ after.t \in {"obj", "arr"}
\* "-" or a non-negative integer literal
IsIndexLiteral(tok) == tok = <<"-">> \/ AllDigits(tok)

\* {"a": {"b": [{"c": 5}]}}
ExampleResult ==
  Obj(KeyA :> Obj(<<"b">> :> Arr(<< Obj(<<"c">> :> Num(5)) >>)))

\* C20 (as claimed): every container an add creates is an Array exactly when
\* the next token is "-" or a non-negative integer literal and an Object for
\* every other next token; add /a/b/0/c = 5 on {} yields {"a":{"b":[{"c":5}]}}.
C20_ContainerInference ==
  \A r \in Reqs :
    AddDone(r) =>
      /\ \A i \in 1..(Len(TokensOf(r)) - 1) :
           CreatedAt(r, i) =>
             LET made == ValueAt(state[r], SubSeq(TokensOf(r), 1, i)) IN
             IF IsIndexLiteral(TokensOf(r)[i + 1]) THEN IsArr(made) ELSE IsObj(made)
      /\ (base[r] = EmptyObj /\ TokensOf(r) = << <<"a">>, <<"b">>, <<"0">>, <<"c">> >>)
           => (applied[r] = 1 /\ state[r] = ExampleResult)

\* the rule of lines 84 and 107: an Array exactly when the next token is "-"
\* or is accepted by int(), which takes a sign
InferenceAsCoded ==
  \A r \in Reqs :
    AddDone(r) =>
      /\ \A i \in 1..(Len(TokensOf(r)) - 1) :
           CreatedAt(r, i) =>
             LET made == ValueAt(state[r], SubSeq(TokensOf(r), 1, i)) IN
             IF TokensOf(r)[i + 1] = <<"-">> \/ is_int_token(TokensOf(r)[i + 1])
             THEN IsArr(made) ELSE IsObj(made)
      /\ (base[r] = EmptyObj /\ TokensOf(r) = << <<"a">>, <<"b">>, <<"0">>, <<"c">> >>)
           => (applied[r] = 1 /\ state[r] = ExampleResult)

(***************************************************************************)
(* A batch in the loop.  AtBatch(d, ps, W): each request of W has passed   *)
(* the gate and loaded the document d, and is about to apply the first of  *)
(* its patches ps (line 652).                                              *)
(***************************************************************************)
AtBatch(d, ps, W) ==
  /\ WELCOME_RECEIVED = TRUE
  /\ lock = 0
  /\ doc = File(d, NChunks)
  /\ tmp = Missing
  /\ started = Cardinality(W)
  /\ pc = [r \in Reqs |-> IF r \in W THEN "apply" ELSE "idle"]
  /\ body = [r \in Reqs |-> IF r \in W THEN <<PartialState(ps)>> ELSE <<>>]
  /\ welcome_full_state = [r \in Reqs |-> Null]
  /\ welcome_saved = [r \in Reqs |-> FALSE]
  /\ welcome_error = [r \in Reqs |-> FALSE]
  /\ patches = [r \in Reqs |-> IF r \in W THEN ps ELSE <<>>]
  /\ state = [r \in Reqs |-> IF r \in W THEN d ELSE Null]
  /\ base = [r \in Reqs |-> IF r \in W THEN d ELSE Null]
  /\ idx = [r \in Reqs |-> 1]
  /\ applied = [r \in Reqs |-> 0]
  /\ skipped = [r \in Reqs |-> 0]
  /\ reasons = [r \in Reqs |-> <<>>]
  /\ wr = [r \in Reqs |-> 0]
  /\ resp = [r \in Reqs |-> NoResp]
  /\ DietsStart

(***************************************************************************)
(* The same patch twice: a batch of two equal patches (add, replace or     *)
(* remove of the value 7 at a path of up to MaxDepth tokens, or at the     *)
(* empty path) on one of five documents.                                   *)
(***************************************************************************)
MaxDepth == 3
Ops == {"add", "replace", "remove"}
DepthTokens == { <<"a">>, <<"b">>, <<"0">>, <<"1">>, <<"-">> }
DepthPaths == { EncodeTokens(toks) : toks \in UNION { [1..k -> DepthTokens] : k \in 0..MaxDepth } }
\* {"a": [0]}, {"a": {"b": 1}}, {"a": [{"b": 1}, 2]}, {"a": null}, {"a": 1}
PatchDocs ==
  { Snap2,
    Obj(KeyA :> Obj(<<"b">> :> Num(1))),
    Obj(KeyA :> Arr(<< Obj(<<"b">> :> Num(1)), Num(2) >>)),
    Obj(KeyA :> Null),
    Obj(KeyA :> Num(1)) }
InitTwice ==
  \E d \in PatchDocs, o \in Ops, p \in DepthPaths :
    AtBatch(d, << Patch(o, p, Num(7)), Patch(o, p, Num(7)) >>, {1})
SpecTwice == InitTwice /\ [][NextApply]_vars

\* request r is in the loop with two equal patches of operation o
Twice(r, o) ==
  /\ pc[r] = "apply" /\ Len(patches[r]) = 2
  /\ patches[r][1] = patches[r][2] /\ patches[r][1].op = o
\* the tokens before the last one
ParentTokens(r) == SubSeq(TokensOf(r), 1, Len(TokensOf(r)) - 1)
LastToken(r) == TokensOf(r)[Len(TokensOf(r))]

\* C22: applying a replace a second time leaves the document as the first
\* application left it; applying the same add at "-" on an array twice leaves
\* the array two elements longer than it was.
C22_ReplaceIdempotentAppendNot ==
  /\ [][\A r \in Reqs :
          (Twice(r, "replace") /\ idx[r] = 2 /\ idx'[r] = 3) => state'[r] = state[r]]_vars
  /\ [](\A r \in Reqs :
          (/\ Twice(r, "add") /\ idx[r] = 3
           /\ TokensOf(r) # <<>> /\ LastToken(r) = <<"-">>
           /\ IsArr(ValueAt(base[r], ParentTokens(r))))
          => /\ applied[r] = 2
             /\ IsArr(ValueAt(state[r], ParentTokens(r)))
             /\ Len(ValueAt(state[r], ParentTokens(r)).v)
                  = Len(ValueAt(base[r], ParentTokens(r)).v) + 2)

\* C22 witness: a replace has been applied twice and has changed the document
C22_Witness ==
  \E r \in Reqs :
    /\ Twice(r, "replace") /\ idx[r] = 3 /\ applied[r] = 2
    /\ state[r] # base[r]

\* request r removes, twice, a key that the object at its parent holds
RemovesKeyTwice(r) ==
  /\ Twice(r, "remove")
  /\ TokensOf(r) # <<>>
  /\ IsObj(ValueAt(base[r], ParentTokens(r)))
  /\ LastToken(r) \in DOMAIN ValueAt(base[r], ParentTokens(r)).v

\* C23: a remove whose parent is an object holding the key is applied and
\* deletes the key; the same remove again is skipped with "key not found" and
\* leaves the document as it was.
C23_RemoveTwice ==
  /\ [](\A r \in Reqs :
          (RemovesKeyTwice(r) /\ idx[r] >= 2)
          => /\ applied[r] = 1
             /\ ValueAt(state[r], ParentTokens(r))
                  = Obj(Del(ValueAt(base[r], ParentTokens(r)).v, LastToken(r)))
             /\ idx[r] = 3 => /\ skipped[r] = 1
                              /\ reasons[r] = << Reason("key not found", <<>>) >>)
  /\ [][\A r \in Reqs :
          (RemovesKeyTwice(r) /\ idx[r] = 2 /\ idx'[r] = 3) => state'[r] = state[r]]_vars

\* C23 witness: /a/0/b has been removed from {"a": [{"b": 1}, 2]} and the second
\* remove has been skipped
C23_Witness ==
  \E r \in Reqs :
    /\ Twice(r, "remove") /\ idx[r] = 3 /\ applied[r] = 1 /\ skipped[r] = 1
    /\ TokensOf(r) = << <<"a">>, <<"0">>, <<"b">> >>
    /\ state[r] = Obj(KeyA :> Arr(<< EmptyObj, Num(2) >>))

(***************************************************************************)
(* Adds into an array: one add of 9 or of null at /a/<key> on {"a": s},    *)
(* s = [1, ..., n] with n up to MaxArrayLen.                               *)
(***************************************************************************)
MaxArrayLen == 3
ArrayKeys ==
  { <<"-">>, <<"0">>, <<"1">>, <<"2">>, <<"3">>, <<"4">>, <<"5">>, <<"6">>, <<"1", "0">>,
    <<"-", "1">>, <<"+", "1">>, <<"x">>, <<>> }
ArrayDoc(n) == Obj(KeyA :> Arr([j \in 1..n |-> Num(j)]))
InitArrayAdd ==
  \E n \in 0..MaxArrayLen, k \in ArrayKeys, x \in {Num(9), Null} :
    AtApply(ArrayDoc(n), Patch("add", EncodeTokens(<<KeyA, k>>), x))
SpecArrayAdd == InitArrayAdd /\ [][NextApply]_vars

\* C21: an add into an array of length n appends at "-", inserts at an integer
\* key k with 0 <= k <= n shifting the later elements right, pads with null so
\* that the value lands at index k when k > n, and fails leaving the array
\* unchanged at a negative or non-integer key.
C21_AddIntoArray ==
  \A r \in Reqs :
    (AddDone(r) /\ Len(TokensOf(r)) = 2 /\ IsArr(ValueAt(base[r], <<KeyA>>))) =>
      LET s == base[r].v[KeyA].v
          out == state[r].v[KeyA].v
          n == Len(s)
          x == patches[r][1].value
          key == TokensOf(r)[2]
          k == IntVal(key)
      IN
      IF key = <<"-">> THEN applied[r] = 1 /\ out = Append(s, x)
      ELSE IF is_int_token(key) /\ 0 <= k /\ k <= n THEN
        /\ applied[r] = 1
        /\ Len(out) = n + 1
        /\ out[k + 1] = x
        /\ \A j \in 1..k : out[j] = s[j]
        /\ \A j \in (k + 1)..n : out[j + 1] = s[j]
      ELSE IF is_int_token(key) /\ k > n THEN
        /\ applied[r] = 1
        /\ Len(out) = k + 1
        /\ out[k + 1] = x
        /\ \A j \in 1..n : out[j] = s[j]
        /\ \A j \in (n + 1)..k : out[j] = Null
      ELSE applied[r] = 0 /\ skipped[r] = 1 /\ state[r] = base[r]

\* C21 witness: add /a/5 = 9 on {"a": [1, 2]} has given
\* {"a": [1, 2, null, null, null, 9]}
C21_Witness ==
  \E r \in Reqs :
    /\ AddDone(r) /\ base[r] = ArrayDoc(2) /\ TokensOf(r) = <<KeyA, <<"5">> >>
    /\ applied[r] = 1
    /\ state[r] = Obj(KeyA :> Arr(<<Num(1), Num(2), Null, Null, Null, Num(9)>>))

(***************************************************************************)
(* Seeds and empty batches: requests that bring a snapshot, an empty patch *)
(* list, or both in one envelope.                                          *)
(***************************************************************************)
EmptyBatch == PartialState(<<>>)
RoundTripBodies ==
  { <<Welcome(s)>> : s \in Snaps } \cup { <<Welcome(s), EmptyBatch>> : s \in Snaps }
    \cup { <<EmptyBatch>> }
NextRoundTrip ==
  \E r \in Reqs :
    \/ \E b \in RoundTripBodies : Start(r, b)
    \/ SeedSteps(r) \/ NoPatches(r)
SpecRoundTrip == Init /\ [][NextRoundTrip]_vars

\* the body of request r holds an empty patch list
HasEmptyBatch(r) == \E i \in 1..Len(body[r]) : body[r][i] = EmptyBatch

\* C24: a seed that completes leaves its snapshot as the persisted document;
\* an empty batch leaves the persisted document as it is and reports applied = 0
\* and skipped = 0; so a request that seeds X and brings an empty batch, alone
\* on the store, ends with the document X.
C24_SeedEmptyBatchRoundTrip ==
  /\ [][\A r \in Reqs :
          (pc[r] = "seed_write" /\ pc'[r] = "seed_mark")
            => doc' = File(welcome_full_state[r], NChunks)]_vars
  /\ [][\A r \in Reqs :
          (HasEmptyBatch(r) /\ pc[r] = "collect" /\ pc'[r] # "collect")
            => /\ doc' = doc
               /\ pc'[r] = "done" /\ resp'[r].ok
               /\ resp'[r].applied = 0 /\ resp'[r].skipped = 0]_vars
  /\ [](\A r \in Reqs, s \in Snaps :
          (/\ started = 1 /\ pc[r] = "done"
           /\ body[r] = <<Welcome(s), EmptyBatch>> /\ resp[r].welcomeSaved)
          => doc = File(s, NChunks))

\* C24 witness: after a seed with {"a": []}, a later request with an empty
\* batch has been answered and the document is {"a": []}
C24_Witness ==
  \E r \in Reqs :
    /\ started = 2 /\ \A q \in Reqs : Free(q)
    /\ pc[r] = "done" /\ body[r] = <<EmptyBatch>>
    /\ resp[r].ok /\ resp[r].applied = 0 /\ resp[r].skipped = 0
    /\ WELCOME_RECEIVED /\ doc = File(Snap1, NChunks)

\* the places of document d: the token lists at which it has a value
Places(d) ==
  { t \in UNION { [1..k -> DepthTokens] : k \in 0..(MaxDepth + 1) } : ValueAt(d, t).t # "absent" }
\* request r is at patch i of its batch, and that patch has operation o
AtPatch(r, i, o) ==
  pc[r] = "apply" /\ idx[r] = i /\ i <= Len(patches[r]) /\ patches[r][i].op = o

\* C25: a replace or a remove adds no key to an object and pads or creates no
\* array: after a replace (of a number) the document has values at no place
\* where it had none, after an applied remove it has them at fewer places, and
\* after a skipped one the document is unchanged.
C25_NoFabrication ==
  [][\A r \in Reqs, i \in 1..2 :
       /\ (AtPatch(r, i, "replace") /\ idx'[r] = i + 1)
            => /\ Places(state'[r]) \subseteq Places(state[r])
               /\ skipped'[r] # skipped[r] => state'[r] = state[r]
       /\ (AtPatch(r, i, "remove") /\ idx'[r] = i + 1)
            => IF skipped'[r] # skipped[r] THEN state'[r] = state[r]
               ELSE Cardinality(Places(state'[r])) < Cardinality(Places(state[r]))]_vars

\* C25 witness: replace /b/0 on {"a": [0]}, where b is missing, has been
\* skipped twice and the document is {"a": [0]}
C25_Witness ==
  \E r \in Reqs :
    /\ Twice(r, "replace") /\ idx[r] = 3 /\ skipped[r] = 2
    /\ TokensOf(r) = << <<"b">>, <<"0">> >>
    /\ base[r] = Snap2 /\ state[r] = Snap2

\* C26: a patch whose path has zero tokens is skipped, whatever its operation,
\* and leaves the document, root included, unchanged.
C26_RootRejected ==
  [][\A r \in Reqs, i \in 1..2, o \in Ops :
       (/\ AtPatch(r, i, o) /\ idx'[r] = i + 1
        /\ json_pointer_tokens(patches[r][i].path) = <<>>)
       => /\ state'[r] = state[r]
          /\ applied'[r] = applied[r]
          /\ skipped'[r] = skipped[r] + 1
          /\ reasons'[r] = Append(reasons[r], Reason("root path not supported", <<>>))]_vars

\* C26 witness: an add at the empty path on {"a": {"b": 1}} has been skipped
\* and the document is as it was
C26_Witness ==
  \E r \in Reqs :
    /\ Twice(r, "add") /\ idx[r] >= 2 /\ PathOf(r) = <<>>
    /\ applied[r] = 0 /\ skipped[r] = idx[r] - 1
    /\ base[r] = Obj(KeyA :> Obj(<<"b">> :> Num(1))) /\ state[r] = base[r]

(***************************************************************************)
(* Runs side by side: every request has loaded the same document and       *)
(* brings the same two patches; their loops interleave.                    *)
(***************************************************************************)
RunPatches ==
  { App(1), MidDash, NotADict,
    Patch("remove", <<"/", "a", "/", "0">>, Null),
    Patch("replace", <<"/", "a", "/", "0">>, Num(7)),
    Patch("add", <<"/", "b", "/", "1">>, Num(7)) }
InitRuns ==
  \E d \in Snaps, p1 \in RunPatches, p2 \in RunPatches : AtBatch(d, <<p1, p2>>, Reqs)
SpecRuns == InitRuns /\ [][NextApply]_vars

RestartGateFromFile == doc # Missing

\* line 15
RestartGate == FALSE

Restart ==
  /\ WELCOME_RECEIVED' = RestartGate
  /\ lock' = 0
  /\ pc' = [r \in Reqs |-> "idle"]
  /\ body' = [r \in Reqs |-> <<>>]
  /\ welcome_full_state' = [r \in Reqs |-> Null]
  /\ welcome_saved' = [r \in Reqs |-> FALSE]
  /\ welcome_error' = [r \in Reqs |-> FALSE]
  /\ patches' = [r \in Reqs |-> <<>>]
  /\ state' = [r \in Reqs |-> Null]
  /\ base' = [r \in Reqs |-> Null]
  /\ idx' = [r \in Reqs |-> 1]
  /\ applied' = [r \in Reqs |-> 0]
  /\ skipped' = [r \in Reqs |-> 0]
  /\ reasons' = [r \in Reqs |-> <<>>]
  /\ wr' = [r \in Reqs |-> 0]
  /\ resp' = [r \in Reqs |-> NoResp]
  /\ UNCHANGED <<doc, tmp, started>>
  /\ UNCHANGED diets

RestartBodies ==
  { <<PartialState(<<App(1)>>)>>, <<Welcome(Snap1)>>, <<Welcome(Snap1), PartialState(<<App(1)>>)>> }
NextRestart ==
  \/ \E r \in Reqs : (\E b \in RestartBodies : Start(r, b)) \/ Handler(r)
  \/ Restart
SpecRestart == InitContention /\ [][NextRestart]_vars

\* a step that leaves every worker idle without a request having arrived
RestartStep == (\A r \in Reqs : pc'[r] = "idle") /\ started' = started
\* request r is past the gate with a batch
PastGate(r) == pc[r] \in {"load_lock", "load", "apply", "persist_write"}

\* C28: a restart closes the gate and leaves the persisted document as it is,
\* valid or not; while the gate is closed no batch gets past it, every batch
\* is answered with applied = 0, skipped = its length and requiresWelcome, and
\* the document is not changed by it; the gate opens again only when a seed
\* has succeeded.
C28_GateResetsOnRestart ==
  /\ [][RestartStep => (~WELCOME_RECEIVED' /\ doc' = doc)]_vars
  /\ [](~WELCOME_RECEIVED =>
          \A r \in Reqs :
            /\ ~PastGate(r)
            /\ (pc[r] = "done" /\ patches[r] # <<>>)
                 => /\ resp[r].requiresWelcome /\ resp[r].applied = 0
                    /\ resp[r].skipped = Len(patches[r]))
  /\ [][\A r \in Reqs :
          (~WELCOME_RECEIVED /\ pc[r] = "collect" /\ pc'[r] = "done") => doc' = doc]_vars
  /\ [][(~WELCOME_RECEIVED /\ WELCOME_RECEIVED')
          => \E r \in Reqs : pc[r] = "seed_mark" /\ welcome_saved'[r]]_vars

\* C28 witness: the gate is closed although the document {"a": [0]} of the
\* earlier run is in place, and a batch of one patch has been rejected
C28_Witness ==
  \E r \in Reqs :
    /\ ~WELCOME_RECEIVED /\ doc = File(Snap2, NChunks)
    /\ pc[r] = "done" /\ Len(patches[r]) = 1
    /\ resp[r].requiresWelcome /\ resp[r].skipped = 1 /\ resp[r].applied = 0

\* C29: an add that is reported as not applied leaves the document as it was
\* before the call: no container created, no array padded.
C29_SkippedAddUnchanged ==
  \A r \in Reqs : (AddDone(r) /\ skipped[r] = 1) => state[r] = base[r]

(***************************************************************************)
(* Envelopes that bring a snapshot and patches, the patches after the      *)
(* snapshot frame or on both sides of it; the store is fresh.              *)
(***************************************************************************)
EnvelopeBodies ==
  { <<Welcome(Snap1), PartialState(<<App(1)>>)>>,
    <<PartialState(<<App(1)>>), Welcome(Snap1), PartialState(<<App(2)>>)>> }
NextEnvelope ==
  \E r \in Reqs :
    \/ \E b \in EnvelopeBodies : Start(r, b)
    \/ SeedSteps(r) \/ GateReject(r) \/ BatchSteps(r)
SpecEnvelope == Init /\ [][NextEnvelope]_vars

\* the patches of all frames of a body, in order
RECURSIVE PatchesOf(_)
PatchesOf(frames) ==
  IF frames = <<>> THEN <<>> ELSE Head(frames).patches \o PatchesOf(Tail(frames))
\* request r is the only one the store has seen
Alone(r) == started = 1 /\ pc[r] # "idle"

\* C30 (as claimed): a request that brings a snapshot and patches to a fresh
\* store is not gate-rejected, and its patches, those before the snapshot
\* frame too, are applied to the snapshot.
C30_SnapshotThenBatch ==
  \A r \in Reqs :
    (Alone(r) /\ pc[r] = "done")
      => /\ ~resp[r].requiresWelcome
         /\ patches[r] = PatchesOf(body[r])
         /\ base[r] = welcome_full_state[r]

\* C30 (amended): when the seed of the snapshot has succeeded, the patches are
\* not gate-rejected, and all of them, those before the snapshot frame too, go
\* to the document loaded after the seed; for a request alone on the store
\* that document is the snapshot, and an ok answer leaves the snapshot with
\* the patches applied as the persisted document.  When the seed has failed,
\* a request alone on the fresh store is gate-rejected.
C30_SeededThenBatch ==
  \A r \in Reqs :
    /\ (welcome_saved[r] /\ pc[r] = "done") => ~resp[r].requiresWelcome
    /\ (welcome_saved[r] /\ pc[r] \in {"apply", "persist_write"})
         => patches[r] = PatchesOf(body[r])
    /\ (Alone(r) /\ welcome_saved[r] /\ pc[r] \in {"apply", "persist_write"})
         => base[r] = welcome_full_state[r]
    /\ (Alone(r) /\ welcome_saved[r] /\ Answered(r, "ok"))
         => /\ doc = File(FoldPatches(welcome_full_state[r], PatchesOf(body[r])).doc, NChunks)
            /\ resp[r].applied = Len(PatchesOf(body[r]))
    /\ (Alone(r) /\ welcome_error[r] /\ pc[r] = "done")
         => /\ resp[r].requiresWelcome /\ resp[r].applied = 0
            /\ resp[r].skipped = Len(PatchesOf(body[r]))

\* C30 witness: the envelope [add /a/- 1] [snapshot {"a": []}] [add /a/- 2],
\* alone on a fresh store, has been answered ok and the document is
\* {"a": [1, 2]}
C30_Witness ==
  \E r \in Reqs :
    /\ Alone(r) /\ Answered(r, "ok") /\ resp[r].welcomeSaved /\ resp[r].applied = 2
    /\ body[r] = <<PartialState(<<App(1)>>), Welcome(Snap1), PartialState(<<App(2)>>)>>
    /\ doc = File(Obj(KeyA :> Arr(<<Num(1), Num(2)>>)), NChunks)

\* C31: a seed whose persist fails leaves the gate and the document as they
\* were; when the store is still unseeded, the patches of the same envelope are
\* rejected with applied = 0, skipped = their number and requiresWelcome.
C31_FailedSeedChangesNothing ==
  /\ [][\A r \in Reqs :
          (pc[r] \in {"seed_lock", "seed_write"} /\ pc'[r] = "collect" /\ welcome_error'[r])
            => /\ WELCOME_RECEIVED' = WELCOME_RECEIVED
               /\ doc' = doc
               /\ ~welcome_saved'[r]]_vars
  /\ [][\A r \in Reqs :
          (/\ pc[r] = "collect" /\ pc'[r] # "collect"
           /\ welcome_error[r] /\ ~WELCOME_RECEIVED)
            => /\ pc'[r] = "done"
               /\ resp'[r].requiresWelcome /\ resp'[r].welcomeError
               /\ resp'[r].applied = 0
               /\ resp'[r].skipped = Len(PatchesOf(body[r]))
               /\ doc' = doc]_vars

\* C31 witness: on a fresh store the seed of an envelope has failed while
\* writing, its two patches have been rejected, and there is still no document
C31_Witness ==
  \E r \in Reqs :
    /\ Alone(r) /\ pc[r] = "done" /\ resp[r].welcomeError /\ resp[r].requiresWelcome
    /\ resp[r].skipped = 2 /\ resp[r].applied = 0
    /\ ~WELCOME_RECEIVED /\ doc = Missing /\ tmp # Missing

\* the tokens of patch i of request r
TokensAt(r, i) == json_pointer_tokens(patches[r][i].path)
\* the walk of patch i of request r meets a number before its last token
ThroughScalar(r, i) ==
  \E j \in 1..(Len(TokensAt(r, i)) - 1) :
    ValueAt(state[r], SubSeq(TokensAt(r, i), 1, j)).t = "num"

\* C32: a patch whose path goes through an existing non-container value before
\* its last token is skipped with a reason, whatever its operation, and the
\* document, that value included, stays as it was.
C32_ScalarOnPath ==
  [][\A r \in Reqs, i \in 1..2, o \in Ops :
       (AtPatch(r, i, o) /\ idx'[r] = i + 1 /\ ThroughScalar(r, i))
       => /\ state'[r] = state[r]
          /\ applied'[r] = applied[r]
          /\ skipped'[r] = skipped[r] + 1
          /\ Len(reasons'[r]) = Len(reasons[r]) + 1
          /\ reasons'[r][Len(reasons'[r])].msg # ""]_vars

\* C32 witness: add /a/b/0 on {"a": 1}, which meets the number 1 in the middle
\* of the walk, has been skipped and the document is as it was
C32_Witness ==
  \E r \in Reqs :
    /\ Twice(r, "add") /\ idx[r] >= 2 /\ skipped[r] >= 1 /\ applied[r] = 0
    /\ TokensOf(r) = << <<"a">>, <<"b">>, <<"0">> >>
    /\ base[r] = Obj(KeyA :> Num(1)) /\ state[r] = base[r]
    /\ reasons[r][1].msg = "Invalid traversal state"

(***************************************************************************)
(* Walks: one patch of any operation, known or not, with or without a      *)
(* path, on {"a": [[1], null], "b": null} or on {"a": []}; paths of up to  *)
(* MaxDepth tokens.                                                        *)
(***************************************************************************)
WalkOps == Ops \cup {"move", "copy", "test", ""}
WalkTokens == { <<"a">>, <<"b">>, <<"0">>, <<"1">>, <<"-">>, <<"-", "1">> }
WalkPaths ==
  { EncodeTokens(toks) : toks \in UNION { [1..k -> WalkTokens] : k \in 1..MaxDepth } }
    \cup {NoPath}
WalkDocs ==
  { Obj((KeyA :> Arr(<< Arr(<<Num(1)>>), Null >>)) @@ (<<"b">> :> Null)),
    Snap1 }
InitWalk ==
  \E d \in WalkDocs, o \in WalkOps, p \in WalkPaths : AtApply(d, Patch(o, p, Num(7)))
SpecWalk == InitWalk /\ [][NextApply]_vars

\* request r is about to apply its patch, of operation o
Before(r, o) == pc[r] = "apply" /\ idx[r] = 1 /\ patches[r] # <<>> /\ patches[r][1].op = o
\* a token that is no index into an array: "-", a negative integer, or no integer
BadIndex(tok) ==
  \/ tok = <<"-">>
  \/ ~is_int_token(tok)
  \/ Head(tok) = "-" /\ NatVal(Tail(tok)) > 0

\* C33: when the walk is in an array and the token to follow, which is not the
\* last one, is "-", is not an integer or is a negative integer, the patch is
\* skipped, whatever its operation, and the array is as it was.
C33_BadTokenInArray ==
  [][\A r \in Reqs, o \in Ops :
       (Before(r, o) /\ idx'[r] = 2) =>
         \A j \in 0..(Len(TokensOf(r)) - 2) :
           LET at == SubSeq(TokensOf(r), 1, j) IN
           (IsArr(ValueAt(state[r], at)) /\ BadIndex(TokensOf(r)[j + 1]))
             => /\ skipped'[r] = 1 /\ applied'[r] = 0
                /\ ValueAt(state'[r], at) = ValueAt(state[r], at)]_vars

\* C33 witness: add /a/-1/b on {"a": [[1], null], "b": null} has been skipped
\* and the document is as it was
C33_Witness ==
  \E r \in Reqs :
    /\ AddDone(r) /\ TokensOf(r) = << <<"a">>, <<"-", "1">>, <<"b">> >>
    /\ skipped[r] = 1 /\ reasons[r][1].msg = "Negative index not allowed"
    /\ base[r] # Snap1 /\ state[r] = base[r]

\* the walk of request r's patch reaches its first j tokens through containers
\* only, and finds null there
NullAt(r, j) ==
  /\ \A i \in 0..(j - 1) : ValueAt(state[r], SubSeq(TokensOf(r), 1, i)).t \in {"obj", "arr"}
  /\ ValueAt(state[r], SubSeq(TokensOf(r), 1, j)).t = "null"

\* C34: a null met before the last token makes replace and remove fail with the
\* document unchanged and makes add put a new container in its place, an array
\* or an object as the next token says; a null at the last token is a value
\* like any other: replace overwrites it and remove deletes it.
C34_NullIsMissing ==
  [][\A r \in Reqs :
       patches[r] # <<>> =>
       LET n == Len(TokensOf(r)) IN
       /\ \A o \in {"replace", "remove"}, j \in 1..(n - 1) :
            (Before(r, o) /\ idx'[r] = 2 /\ NullAt(r, j))
              => skipped'[r] = 1 /\ state'[r] = state[r]
       /\ \A j \in 1..(n - 1) :
            (Before(r, "add") /\ idx'[r] = 2 /\ NullAt(r, j))
              => ValueAt(state'[r], SubSeq(TokensOf(r), 1, j)).t
                   = (IF TokensOf(r)[j + 1] = <<"-">> \/ is_int_token(TokensOf(r)[j + 1])
                      THEN "arr" ELSE "obj")
       /\ (Before(r, "replace") /\ idx'[r] = 2 /\ n >= 1 /\ NullAt(r, n))
            => applied'[r] = 1 /\ ValueAt(state'[r], TokensOf(r)) = patches[r][1].value
       /\ (Before(r, "remove") /\ idx'[r] = 2 /\ n >= 1 /\ NullAt(r, n))
            => /\ applied'[r] = 1
               /\ Cardinality(Places(state'[r])) = Cardinality(Places(state[r])) - 1
               /\ ValueAt(state'[r], TokensOf(r)).t # "null"]_vars

\* C34 witness: add /a/1/b = 7 on {"a": [[1], null], "b": null} has given
\* {"a": [[1], {"b": 7}], "b": null}
C34_Witness ==
  \E r \in Reqs :
    /\ AddDone(r) /\ applied[r] = 1
    /\ TokensOf(r) = << <<"a">>, <<"1">>, <<"b">> >>
    /\ state[r] = Obj((KeyA :> Arr(<< Arr(<<Num(1)>>), Obj(<<"b">> :> Num(7)) >>))
                        @@ (<<"b">> :> Null))

\* the patch of request r, of operation o, is about to be applied and its
\* parent is an array of the document
ArrayParent(r, o) ==
  /\ Before(r, o) /\ TokensOf(r) # <<>>
  /\ IsArr(ValueAt(state[r], ParentTokens(r)))
\* the key of request r's patch is an integer k with lo <= k < hi
KeyWithin(r, lo, hi) ==
  /\ is_int_token(LastToken(r))
  /\ lo <= IntVal(LastToken(r)) /\ IntVal(LastToken(r)) < hi
\* the step applies the patch of request r and changes its array parent from s to out
ReplacedAt(r, s, out) ==
  LET k == IntVal(LastToken(r)) IN
  /\ applied'[r] = 1 /\ skipped'[r] = 0
  /\ Len(out) = Len(s)
  /\ out[k + 1] = patches[r][1].value
  /\ \A j \in 1..Len(s) : j # k + 1 => out[j] = s[j]
\* the step skips the patch of request r with reason m and changes nothing
SkippedWith(r, m) ==
  /\ applied'[r] = 0 /\ skipped'[r] = 1
  /\ state'[r] = state[r]
  /\ reasons'[r] = << Reason(m, <<>>) >>

\* C35 (as claimed): replace on an array of length n succeeds exactly when the
\* key is an integer k with 0 <= k < n, changing element k only; for every other
\* key it fails with "index out of range" and the array is unchanged.
C35_ReplaceInArray ==
  [][\A r \in Reqs :
       (ArrayParent(r, "replace") /\ idx'[r] = 2) =>
         LET s == ValueAt(state[r], ParentTokens(r)).v
             out == ValueAt(state'[r], ParentTokens(r)).v
         IN IF KeyWithin(r, 0, Len(s)) THEN ReplacedAt(r, s, out)
            ELSE SkippedWith(r, "index out of range")]_vars

\* C35 (amended): replace on an array of length n succeeds exactly when the key
\* is an integer k with 0 <= k < n, changing element k only; an integer key
\* outside that range fails with "index out of range", and "-" or another
\* token that is no integer fails with "invalid index token"; the array is
\* unchanged in both cases.
C35_ReplaceInArrayReasons ==
  [][\A r \in Reqs :
       (ArrayParent(r, "replace") /\ idx'[r] = 2) =>
         LET s == ValueAt(state[r], ParentTokens(r)).v
             out == ValueAt(state'[r], ParentTokens(r)).v
         IN IF KeyWithin(r, 0, Len(s)) THEN ReplacedAt(r, s, out)
            ELSE IF is_int_token(LastToken(r)) THEN SkippedWith(r, "index out of range")
            ELSE SkippedWith(r, "invalid index token")]_vars

\* C35 witness: replace /a/0 = 7 on {"a": [[1], null], "b": null} has given
\* {"a": [7, null], "b": null}
C35_Witness ==
  \E r \in Reqs :
    /\ pc[r] = "apply" /\ LoopDone(r) /\ patches[r] # <<>> /\ patches[r][1].op = "replace"
    /\ TokensOf(r) = << <<"a">>, <<"0">> >> /\ applied[r] = 1
    /\ state[r] = Obj((KeyA :> Arr(<< Num(7), Null >>)) @@ (<<"b">> :> Null))

\* the step applies the remove of request r and takes element k out of its
\* array parent s, giving out
RemovedAt(r, k, s, out) ==
  /\ applied'[r] = 1 /\ skipped'[r] = 0
  /\ Len(out) = Len(s) - 1
  /\ \A j \in 1..Len(out) : out[j] = IF j <= k THEN s[j] ELSE s[j + 1]
\* what the code does with a remove on an array parent, the reason for a key
\* that is no integer being m
RemoveInArray(r, m) ==
  LET s == ValueAt(state[r], ParentTokens(r)).v
      out == ValueAt(state'[r], ParentTokens(r)).v
  IN IF LastToken(r) = <<"-">> THEN
       IF s # <<>> THEN RemovedAt(r, Len(s) - 1, s, out) ELSE SkippedWith(r, "array empty")
     ELSE IF KeyWithin(r, 0, Len(s)) THEN RemovedAt(r, IntVal(LastToken(r)), s, out)
     ELSE IF is_int_token(LastToken(r)) THEN SkippedWith(r, "index out of range")
     ELSE SkippedWith(r, m)

\* C36 (as claimed): remove on an array of length n: "-" removes the last
\* element when n > 0 and fails with "array empty" when n = 0; an integer k
\* with 0 <= k < n removes element k, the later ones moving left; any other key
\* fails with "index out of range" and leaves the array unchanged; a successful
\* remove shortens the array by exactly one.
C36_RemoveInArray ==
  [][\A r \in Reqs :
       (ArrayParent(r, "remove") /\ idx'[r] = 2) =>
         RemoveInArray(r, "index out of range")]_vars

\* C36 (amended): as claimed, except that a key that is neither "-" nor an
\* integer fails with "invalid index token"; "index out of range" is the
\* reason for an integer k >= n or negative.
C36_RemoveInArrayReasons ==
  [][\A r \in Reqs :
       (ArrayParent(r, "remove") /\ idx'[r] = 2) =>
         RemoveInArray(r, "invalid index token")]_vars

\* C36 witness: remove /a/0 on {"a": [[1], null], "b": null} has given
\* {"a": [null], "b": null}
C36_Witness ==
  \E r \in Reqs :
    /\ pc[r] = "apply" /\ LoopDone(r) /\ patches[r] # <<>> /\ patches[r][1].op = "remove"
    /\ TokensOf(r) = << <<"a">>, <<"0">> >> /\ applied[r] = 1
    /\ state[r] = Obj((KeyA :> Arr(<< Null >>)) @@ (<<"b">> :> Null))

\* the patch request r is about to apply has an operation other than add,
\* replace and remove, or no operation, or no path
Unsupported(r) ==
  /\ pc[r] = "apply" /\ idx[r] = 1 /\ patches[r] # <<>>
  /\ \/ patches[r][1].op \notin Ops
     \/ patches[r][1].path = NoPath

\* C37: a patch whose op is not add, replace or remove (move, copy, test), or
\* that has no string path or no op, is skipped and leaves the document
\* unchanged.
C37_UnsupportedSkipped ==
  [][\A r \in Reqs :
       (Unsupported(r) /\ idx'[r] = 2) =>
         /\ applied'[r] = 0 /\ skipped'[r] = 1
         /\ Len(reasons'[r]) = 1
         /\ state'[r] = state[r]]_vars

\* C37 witness: copy /b = 7 on {"a": [[1], null], "b": null} was skipped as
\* an unsupported op
C37_Witness ==
  \E r \in Reqs :
    /\ pc[r] = "apply" /\ LoopDone(r) /\ patches[r] # <<>> /\ patches[r][1].op = "copy"
    /\ TokensOf(r) = << <<"b">> >>
    /\ applied[r] = 0 /\ skipped[r] = 1
    /\ reasons[r][1].msg = "unsupported op"
    /\ state[r] = Obj((KeyA :> Arr(<< Arr(<<Num(1)>>), Null >>)) @@ (<<"b">> :> Null))


(***************************************************************************)
(* An add followed by a remove at the same path: a batch of two patches    *)
(* applied by the loop of lines 652-659 to each document of PatchDocs.     *)
(***************************************************************************)
InitAddRemove ==
  \E d \in PatchDocs, p \in DepthPaths :
    AtBatch(d, << Patch("add", p, Num(7)), Patch("remove", p, Null) >>, {1})
SpecAddRemove == InitAddRemove /\ [][NextApply]_vars

\* request r is in the loop with an add and a remove at the same path
AddThenRemove(r) ==
  /\ pc[r] = "apply" /\ Len(patches[r]) = 2
  /\ patches[r][1].op = "add" /\ patches[r][2].op = "remove"
  /\ patches[r][1].path = patches[r][2].path
\* the parent of the path exists in the document request r loaded, and the
\* target is a key the parent object lacks, or "-" or a position up to the
\* length of the parent array
FreshTarget(r) ==
  /\ TokensOf(r) # <<>>
  /\ LET parent == ValueAt(base[r], ParentTokens(r)) IN
       \/ IsObj(parent) /\ LastToken(r) \notin DOMAIN parent.v
       \/ IsArr(parent) /\ (LastToken(r) = <<"-">> \/ KeyWithin(r, 0, Len(parent.v) + 1))

\* C38: an add followed by a remove at the same path restores the document,
\* when the parent container exists and the target is an absent object key or
\* an array position k <= length (or "-"): both patches are applied and the
\* document is the one the batch started from.
C38_AddRemoveRestores ==
  \A r \in Reqs :
    (AddThenRemove(r) /\ FreshTarget(r)) =>
      /\ idx[r] = 2 => (applied[r] = 1 /\ state[r] # base[r])
      /\ idx[r] = 3 => (applied[r] = 2 /\ skipped[r] = 0 /\ state[r] = base[r])

\* C38 witness: add /a/0 = 7 and remove /a/0 on {"a": [0]} have both been
\* applied, the document being {"a": [0]} again
C38_Witness ==
  \E r \in Reqs :
    /\ AddThenRemove(r) /\ FreshTarget(r) /\ idx[r] = 3
    /\ TokensOf(r) = << <<"a">>, <<"0">> >>
    /\ base[r] = Snap2 /\ state[r] = Snap2 /\ applied[r] = 2


(***************************************************************************)
(* pet_diet_server_flask.py: one /save handler at a time (lines 115-174)   *)
(* interleaved with the watcher thread (lines 78-100).  The handler opens  *)
(* the file for writing, which empties it, writes the JSON text, and then  *)
(* assigns the cache; the watcher compares the file's modification time    *)
(* with the last one it saw, and on a change reads the file and assigns    *)
(* what it read.  Each write to the file gives it a new modification time. *)
(***************************************************************************)
MaxSaves == 2
Pets1 == Obj(<<"1">> :> Obj(<<"diets">> :> Arr(<< JStr("Carrot") >>)))
Pets2 == Obj(<<"1">> :> Obj(<<"diets">> :> Arr(<< JStr("Apple") >>)))
\* the pets map of a request after the normalisation of lines 129-160
PetMaps == { EmptyPets, Pets1, Pets2 }
SavePaths == { DEFAULT_PATH, ABS_DEFAULT_PATH, OTHER_PATH }
\* line 162: the path names the default file
ToDefaultFile(p) == p \in { DEFAULT_PATH, ABS_DEFAULT_PATH }
\* the default file when the server starts: absent and not creatable (lines
\* 48-50), empty, or holding a document
StartFiles == { NoDiets, Truncated, Dumped(PetsDoc(EmptyPets)), Dumped(PetsDoc(Pets1)) }

\* lines 59 and 74: the cache and LAST_MTIME after start-up
InitDiets ==
  /\ WELCOME_RECEIVED = FALSE
  /\ lock = 0
  /\ doc = Missing
  /\ tmp = Missing
  /\ started = 0
  /\ pc = [r \in Reqs |-> "idle"]
  /\ body = [r \in Reqs |-> <<>>]
  /\ welcome_full_state = [r \in Reqs |-> Null]
  /\ welcome_saved = [r \in Reqs |-> FALSE]
  /\ welcome_error = [r \in Reqs |-> FALSE]
  /\ patches = [r \in Reqs |-> <<>>]
  /\ state = [r \in Reqs |-> Null]
  /\ base = [r \in Reqs |-> Null]
  /\ idx = [r \in Reqs |-> 1]
  /\ applied = [r \in Reqs |-> 0]
  /\ skipped = [r \in Reqs |-> 0]
  /\ reasons = [r \in Reqs |-> <<>>]
  /\ wr = [r \in Reqs |-> 0]
  /\ resp = [r \in Reqs |-> NoResp]
  /\ diet_file \in StartFiles
  /\ diet_mtime = IF diet_file.exists THEN 0 ELSE NoTime
  /\ LAST_MTIME = diet_mtime
  /\ PET_DIETS_CACHE = CacheOf(Parsed(diet_file))
  /\ watch_pc = "sleep"
  /\ watch_data = NoData
  /\ save_pc = "idle"
  /\ save_path = DEFAULT_PATH
  /\ save_pets = EmptyPets
  /\ saves = 0

\* lines 123-163: a request for path p whose normalised pets map is ps
SaveStart(p, ps) ==
  /\ save_pc = "idle" /\ saves < MaxSaves
  /\ save_path' = p
  /\ save_pets' = ps
  /\ saves' = saves + 1
  /\ save_pc' = "open"
  /\ UNCHANGED <<wslog, PET_DIETS_CACHE, LAST_MTIME, diet_file, diet_mtime, watch_pc, watch_data>>

\* line 164: open(path, 'w') creates the file or empties it
SaveOpen ==
  /\ save_pc = "open"
  /\ IF ToDefaultFile(save_path)
       THEN diet_file' = Truncated /\ diet_mtime' = Touched(diet_mtime)
       ELSE UNCHANGED <<diet_file, diet_mtime>>
  /\ save_pc' = "dump"
  /\ UNCHANGED <<wslog, PET_DIETS_CACHE, LAST_MTIME, watch_pc, watch_data, save_path, save_pets, saves>>

\* a dump that leaves the modification time as the open set it
SaveDumpSameTime ==
  /\ save_pc = "dump"
  /\ IF ToDefaultFile(save_path)
       THEN diet_file' = Dumped(PetsDoc(save_pets)) /\ diet_mtime' = diet_mtime
       ELSE UNCHANGED <<diet_file, diet_mtime>>
  /\ save_pc' = "cache"
  /\ UNCHANGED <<wslog, PET_DIETS_CACHE, LAST_MTIME, watch_pc, watch_data, save_path, save_pets, saves>>

\* line 165 and the end of the with block: the text reaches the file
SaveDump ==
  /\ save_pc = "dump"
  /\ IF ToDefaultFile(save_path)
       THEN diet_file' = Dumped(PetsDoc(save_pets)) /\ diet_mtime' = Touched(diet_mtime)
       ELSE UNCHANGED <<diet_file, diet_mtime>>
  /\ save_pc' = "cache"
  /\ UNCHANGED <<wslog, PET_DIETS_CACHE, LAST_MTIME, watch_pc, watch_data, save_path, save_pets, saves>>

\* lines 168-172: the cache is assigned when the path is the default name,
\* and the handler returns
SaveCache ==
  /\ save_pc = "cache"
  /\ PET_DIETS_CACHE' = IF save_path = DEFAULT_PATH THEN PetsDoc(save_pets) ELSE PET_DIETS_CACHE
  /\ save_pc' = "idle"
  /\ UNCHANGED <<wslog, LAST_MTIME, diet_file, diet_mtime, watch_pc, watch_data, save_path, save_pets, saves>>

\* lines 82-93: one look at the modification time; a time that differs from
\* LAST_MTIME is recorded and the file is reloaded
WatchPoll ==
  /\ watch_pc = "sleep"
  /\ IF diet_mtime # NoTime /\ (LAST_MTIME = NoTime \/ diet_mtime # LAST_MTIME)
       THEN LAST_MTIME' = diet_mtime /\ watch_pc' = "read"
       ELSE UNCHANGED <<LAST_MTIME, watch_pc>>
  /\ UNCHANGED <<wslog, PET_DIETS_CACHE, diet_file, diet_mtime, watch_data, save_pc, save_path, save_pets, saves>>

\* lines 26-28 of _load_default_cache: the file is read and parsed
WatchRead ==
  /\ watch_pc = "read"
  /\ watch_data' = Parsed(diet_file)
  /\ watch_pc' = "assign"
  /\ UNCHANGED <<wslog, PET_DIETS_CACHE, LAST_MTIME, diet_file, diet_mtime, save_pc, save_path, save_pets, saves>>

\* lines 31 and 52: the cache is assigned, and the watcher sleeps (line 100)
WatchAssign ==
  /\ watch_pc = "assign"
  /\ PET_DIETS_CACHE' = CacheOf(watch_data)
  /\ watch_pc' = "sleep"
  /\ UNCHANGED <<wslog, LAST_MTIME, diet_file, diet_mtime, watch_data, save_pc, save_path, save_pets, saves>>

NextDiets ==
  \/ \E p \in SavePaths, ps \in PetMaps : SaveStart(p, ps)
  \/ SaveOpen
  \/ SaveDump
  \/ SaveCache
  \/ WatchPoll
  \/ WatchRead
  \/ WatchAssign

\* the watcher loops for ever, and a handler that has started runs to its end
DietsFairness ==
  /\ WF_vars(WatchPoll \/ WatchRead \/ WatchAssign)
  /\ WF_vars(SaveOpen \/ SaveDump \/ SaveCache)
SpecDiets == InitDiets /\ [][NextDiets]_vars /\ DietsFairness

\* the last /save wrote the default file and has returned
SaveReturned == saves > 0 /\ save_pc = "idle" /\ ToDefaultFile(save_path)
\* the watcher has polled and no write came later: it sleeps, and the time it
\* saw last is the file's
Polled == watch_pc = "sleep" /\ LAST_MTIME = diet_mtime
\* the file holds a pets map that is not empty
HoldsPets == diet_file.written /\ diet_file.json # PetsDoc(EmptyPets)

\* C39: once a /save to the default file has returned and the watcher has
\* polled with no later write, PET_DIETS_CACHE equals the pets map that was
\* saved, and the cache is not left at the empty map while the file holds a
\* non-empty one; and the cache converges to the file: from some point on it
\* is what loading the file gives.
C39_CacheConvergesToFile ==
  /\ []((SaveReturned /\ Polled) =>
          /\ PET_DIETS_CACHE = PetsDoc(save_pets)
          /\ diet_file = Dumped(PET_DIETS_CACHE))
  /\ [](Polled => ~(PET_DIETS_CACHE = PetsDoc(EmptyPets) /\ HoldsPets))
  /\ <>[](PET_DIETS_CACHE = CacheOf(Parsed(diet_file)))

\* C39 witness: a /save of a non-empty map through the absolute path of the
\* default file, which does not assign the cache itself, has returned; the
\* watcher has seen the time of the write, reloaded the file, and the cache
\* is the map that was saved
C39_Witness ==
  /\ SaveReturned /\ Polled
  /\ save_path = ABS_DEFAULT_PATH /\ save_pets = Pets1 /\ saves = 1
  /\ LAST_MTIME = 2
  /\ watch_data = Parsed(Dumped(PetsDoc(Pets1)))
  /\ PET_DIETS_CACHE = PetsDoc(Pets1)

\* the watcher's assignment of what it read from the emptied file comes after
\* the handler has returned: the cache is empty for a while, the file is not
StaleEmpty ==
  /\ SaveReturned /\ watch_pc = "sleep"
  /\ PET_DIETS_CACHE = PetsDoc(EmptyPets) /\ HoldsPets
====
